---- MODULE Spec2Model ----
(***************************************************************************)
(* Model of the persistence manager of PrimoExampleBot                     *)
(* (src/database/database.py, class BotDatabase): users, user messages,    *)
(* roles, role boards, and the handlers that read and write them.          *)
(*                                                                         *)
(* Every handler opens its own session and suspends at each storage or     *)
(* chat call (await).  A handler is therefore modelled as a task that      *)
(* moves through the statements between two suspension points; the         *)
(* tables hold the committed rows, which is what another session reads.    *)
(***************************************************************************)
EXTENDS Integers, Sequences, FiniteSets, TLC

(***************************************************************************)
(* Bounds of the model                                                     *)
(***************************************************************************)
MaxUsers == 2          \* user ids are 1..MaxUsers
MaxTasks == 2          \* handlers in flight at once in the concurrent runs
MaxRoleList == 2       \* length of a list handed to init_roles
MaxMessages == 2       \* rows of user_messages
WinDays == 2           \* days of the calendar window the instants range over
MaxClock == 2          \* the readings of the clock of the rate limit are 0..MaxClock
MaxRate == 2           \* a rate limit is 0..MaxRate events
MaxPeriod == 2         \* a period of the rate limit is 1..MaxPeriod ticks
MaxTopics == 2         \* forum topics created in the support chat
MaxPreviews == 2       \* previews of a form on display in the chat of one user

(***************************************************************************)
(* Python's Optional: None and a present value                             *)
(***************************************************************************)
None == << >>
Some(x) == << x >>
Val(o) == o[1]

(***************************************************************************)
(* Enumerations                                                            *)
(***************************************************************************)
UserStatus == {"ACTIVE", "ADMIN", "BANNED"}

GenshinRegions ==
    {"MONDSTADT", "LIYUE", "INAZUMA", "SUMERU", "FONTAINE", "NATLAN",
     "SNEZHNAYA", "KHAENRIAH", "GENSHIN_OTHER"}

HSRRegions ==
    {"HSR_STAR", "HSR_GERTA", "HSR_YARILO", "HSR_LOFU", "HSR_PENACONY",
     "HSR_AMPHOREUS", "HSR_HUNTER", "HSR_KMM", "HSR_EONS", "HSR_FIRE_MANSION",
     "HSR_LORDS", "HSR_OTHER", "HSR_FATE"}

RoleRegion == GenshinRegions \cup HSRRegions

GameTypes == {"genshin", "hsr"}

\* the name of a region as the words its underscores separate
NameWords(region) ==
    CASE region = "GENSHIN_OTHER" -> << "GENSHIN", "OTHER" >>
      [] region = "HSR_STAR" -> << "HSR", "STAR" >>
      [] region = "HSR_GERTA" -> << "HSR", "GERTA" >>
      [] region = "HSR_YARILO" -> << "HSR", "YARILO" >>
      [] region = "HSR_LOFU" -> << "HSR", "LOFU" >>
      [] region = "HSR_PENACONY" -> << "HSR", "PENACONY" >>
      [] region = "HSR_AMPHOREUS" -> << "HSR", "AMPHOREUS" >>
      [] region = "HSR_HUNTER" -> << "HSR", "HUNTER" >>
      [] region = "HSR_KMM" -> << "HSR", "KMM" >>
      [] region = "HSR_EONS" -> << "HSR", "EONS" >>
      [] region = "HSR_FIRE_MANSION" -> << "HSR", "FIRE", "MANSION" >>
      [] region = "HSR_LORDS" -> << "HSR", "LORDS" >>
      [] region = "HSR_OTHER" -> << "HSR", "OTHER" >>
      [] region = "HSR_FATE" -> << "HSR", "FATE" >>
      [] OTHER -> << region >>

\* faulty variant: every role is taken for a Genshin role
GameTypeOf_AlwaysGenshin(region) == "genshin"

\* "hsr" if role.region.name.startswith("HSR_") else "genshin"
GameTypeOf(region) ==
    IF Len(NameWords(region)) > 1 /\ Head(NameWords(region)) = "HSR" THEN "hsr" ELSE "genshin"

(***************************************************************************)
(* Input domains                                                           *)
(***************************************************************************)
UserIds == 1 .. MaxUsers
Tasks == 1 .. MaxTasks

\* (username, full_name) as a caller supplies them
Profiles == { [username |-> None, full_name |-> None],
              [username |-> Some("neo"), full_name |-> Some("Thomas Anderson")] }

\* the (name, region) pairs a seeding list is made of
RoleSeeds == { <<"Albedo", "MONDSTADT">>, <<"Albedo", "LIYUE">>, <<"Kafka", "HSR_STAR">>,
               <<"Kafka", "MONDSTADT">> }
RoleNames == { s[1] : s \in RoleSeeds }
\* role names a caller may ask for: the seeded ones and one that is never seeded
AskedRoleNames == RoleNames \cup {"Nobody"}

RoleLists == UNION { [1 .. n -> RoleSeeds] : n \in 1 .. MaxRoleList }

\* the channel and message a board is published as
ChannelIds == {100, 200}
BoardMessageIds == {1, 2}

\* A text is a sequence of fragments: a fragment is a run of characters that the
\* text operations never cut.  The non-ASCII characters of the source are written with
\* ASCII stand-ins.
Newline == "\n"
Whitespace == {" ", "\t", Newline}
CheckMark == "(v)"       \* U+2705, the mark of an occupied role
Clock == "(t)"           \* U+1F552
\* the decorative markers: U+1D4E, the heading word and the footer phrase of a board
Markers == {"!", "LIST", "If the character"}

\* the board texts that are published
PlainText == << "Albedo", Newline, "Kafka" >>
BoardTexts ==
    { PlainText,
      << >>,
      << "LIST", Newline, Newline, " ", "Albedo", " ", CheckMark, Newline, "Kafka", Clock >>,
      << "!", "Albedo", Newline, " ", Newline, "Nobody", " ", CheckMark, Newline,
         CheckMark, "Kafka", " " >>,
      << "Albedo", CheckMark, "Kafka", Newline, "Kafka", " ", "If the character" >> }

(***************************************************************************)
(* Time.  An instant is a number of ticks since 1970-01-01 00:00 UTC, with *)
(* TicksPerDay ticks a day.  The calendar is that of the year 1970.        *)
(***************************************************************************)
MonthLengths == << 31, 28, 31, 30, 31, 30, 31, 31, 30, 31, 30, 31 >>

\* an instant keeps its day and, of hour, minute, second and microsecond, whether they
\* are all 0 (tick 0 of the day) or not (tick 1)
TicksPerDay == 2

\* first day of the window: Saturday 1970-01-31, so that the window holds the end of a
\* month inside a week (Sunday is 02-01) and the Monday after it
WinStartDay == MonthLengths[1] - 1

\* datetime.weekday(): Monday is 0; 1970-01-01 was a Thursday
weekday(dt) == ((dt \div TicksPerDay) + 3) % 7

RECURSIVE DayInMonth(_, _)
DayInMonth(d, m) ==
    IF d < MonthLengths[m] THEN d + 1 ELSE DayInMonth(d - MonthLengths[m], m + 1)

\* datetime.day: the day of the month, from 1
day(dt) == DayInMonth(dt \div TicksPerDay, 1)

\* dt.replace(hour=0, minute=0, second=0, microsecond=0)
start_of_day(dt) == dt - (dt % TicksPerDay)

\* monday = dt - timedelta(days=dt.weekday()); monday.replace(hour=0, ...)
start_of_week_monday(dt) ==
    LET monday == dt - weekday(dt) * TicksPerDay
    IN  monday - (monday % TicksPerDay)

\* dt.replace(day=1, hour=0, minute=0, second=0, microsecond=0)
start_of_month(dt) ==
    LET first == dt - (day(dt) - 1) * TicksPerDay
    IN  first - (first % TicksPerDay)

\* datetime(1970, 1, 1, tzinfo=timezone.utc)
epoch_start == 0

Window == (WinStartDay * TicksPerDay) .. ((WinStartDay + WinDays) * TicksPerDay - 1)

\* what datetime.now(timezone.utc) may return
Now == Window

\* timestamps a caller may hand to add_message: the window and one instant before the epoch
Timestamps == Window \cup {epoch_start - 1, epoch_start}

\* tzinfo of a datetime: None (naive) or the UTC offset, here UTC, +12:00 and -12:00
UtcOffset == TicksPerDay \div 2
Timezones == {None, Some(0), Some(UtcOffset), Some(0 - UtcOffset)}

\* the datetimes handed to add_message: the wall-clock reading and the tzinfo
Datetimes == [wall : Timestamps, tzinfo : Timezones]

NaiveDatetimes == { dt \in Datetimes : dt.tzinfo = None }

\* datetime.now(timezone.utc)
utc(now) == [wall |-> now, tzinfo |-> Some(0)]

\* the instant an aware datetime denotes, as its UTC wall-clock reading
Instant(dt) == dt.wall - Val(dt.tzinfo)

(***************************************************************************)
(* State                                                                   *)
(***************************************************************************)
VARIABLES
    users,           \* table users: id -> [username, full_name, status], committed rows
    user_messages,   \* table user_messages: rows [user_id, created_at] in id order
    roles,           \* table roles: name (unique) -> [region, occupied_by]
    role_messages,   \* table role_messages: rows [game_type, channel_id, message_id, message_text] in id order
    write_lock,      \* the task whose session holds the store's write transaction, or 0
    tasks,           \* the handler each task runs, its position and its locals
    engine,          \* the connection string the manager's engine was created for, or None
    chat,            \* the chat: <<chat_id, message_id>> -> the text last pushed to that message
    limiter,         \* RateLimitMiddleware: [rate_limit, time_period, user_calls]
    traffic,         \* the events the rate limit has met: [now, forwarded, outcome]
    pipeline,        \* MessageCounterMiddleware: per task, the event it is passing on
    fsm,             \* FSMContext storage: user -> [state, data]
    user_topic_map,  \* new_cmd.user_topic_map: <<user id, kind>> -> thread id
    dialog,          \* the buttons on display: [previews, topics]
    answer,          \* what the last handler of the form did: [handler, user_id, result, ...]
    before,          \* observer: the tables as they were when the one caller's handler was called
    rejected         \* observer: the <<role, user>> whose last assign_role met an occupied role

\* the state of the bot around the persistence manager
form_vars == << fsm, user_topic_map, dialog, answer >>
bot_vars == << limiter, traffic, pipeline, form_vars >>

vars == << users, user_messages, roles, role_messages, write_lock, tasks, engine, chat,
          limiter, traffic, pipeline, fsm, user_topic_map, dialog, answer,
          before, rejected >>

Tables == [users |-> users, user_messages |-> user_messages,
           roles |-> roles, role_messages |-> role_messages]

NoTables == [users |-> << >>, user_messages |-> << >>,
             roles |-> << >>, role_messages |-> << >>]

\* a task that runs nothing
Idle == [op |-> "idle", pc |-> "idle", user_id |-> 0, role_name |-> "", game_type |-> "",
         flag |-> FALSE, profile |-> None, at |-> None, status |-> "",
         list |-> << >>, pending |-> << >>, found |-> {}, todo |-> << >>,
         board |-> None, row |-> None, snapshot |-> << >>, counts |-> << >>,
         calls |-> << >>, edits |-> << >>, now |-> None,
         region |-> None, only_active |-> FALSE, include_admins |-> FALSE,
         order_asc |-> FALSE, supplied |-> {}, db_url |-> None,
         raised |-> FALSE, result |-> None]

\* DEFAULT_DB_URL: str = "sqlite+aiosqlite:///./bot.db"; a connection string is the
\* sequence of its characters, the characters of a URL being kept together
DEFAULT_DB_URL == << "sqlite+aiosqlite:///./bot.db" >>

\* the senders of the events the middlewares meet
Senders == {1, 2}

\* RateLimitMiddleware(rate_limit, time_period): self.user_calls = defaultdict(list);
\* times are counted in ticks
NewLimiter(rate_limit, time_period) ==
    [rate_limit |-> rate_limit, time_period |-> time_period,
     user_calls |-> [u \in Senders |-> << >>]]

\* no event has arrived: the clock reads 0; forwarded[u][t] is the number of the events
\* of u that arrived at t and went to the handler
NoTraffic == [now |-> 0, forwarded |-> [u \in Senders |-> [t \in 0 .. MaxClock |-> 0]],
              outcome |-> None]

\* a task through which no event passes: handled counts the calls of the downstream
\* handler for the event, recorded the message rows stored for it
NoEvent == [pc |-> "idle", event |-> None, handled |-> 0, failed |-> FALSE, recorded |-> 0]

\* state.clear(): no state is set and no data is kept
NoForm == [state |-> None, data |-> << >>]

\* no preview of a form is on display and the support chat has no topic; topics[T] is
\* the topic of thread id T: the user whose submission created it and whether the
\* decision keyboard is on display in it
NoButtons == [previews |-> [u \in Senders |-> 0], topics |-> << >>]

\* a store without a row, no handler running and nothing pushed to the chat
EmptyStore ==
    /\ users = << >>
    /\ user_messages = << >>
    /\ roles = << >>
    /\ role_messages = << >>
    /\ write_lock = 0
    /\ tasks = [t \in Tasks |-> Idle]
    /\ chat = << >>
    /\ traffic = NoTraffic
    /\ pipeline = [t \in Tasks |-> NoEvent]
    /\ fsm = [u \in Senders |-> NoForm]
    /\ user_topic_map = << >>
    /\ dialog = NoButtons
    /\ answer = None
    /\ before = NoTables
    /\ rejected = {}

\* db: BotDatabase = BotDatabase(): the manager of the module, on the default store
Init ==
    /\ EmptyStore
    /\ engine = Some(DEFAULT_DB_URL)
    /\ limiter = NewLimiter(10, 2)

\* a function extended or overwritten at one key (a row inserted or updated)
Put(f, k, v) == [x \in (DOMAIN f) \cup {k} |-> IF x = k THEN v ELSE f[x]]

\* a caller may start a handler on a task that runs nothing
Free(t) == tasks[t].pc = "idle"

\* the store lets t write: no other session holds the write transaction
CanWrite(t) == write_lock \in {0, t}

\* the handler starts: its arguments are bound and the tables are remembered
Called(t, op, pc, args) ==
    [x \in DOMAIN Idle |-> IF x = "op" THEN op
                           ELSE IF x = "pc" THEN pc
                           ELSE IF x \in DOMAIN args THEN args[x]
                           ELSE Idle[x]]

\* the handler returns value v
Returned(task, v) == [task EXCEPT !.pc = "done", !.result = Some(v)]

(***************************************************************************)
(* Users                                                                   *)
(***************************************************************************)
\* faulty variant: the admin flag is ignored
NewUserStatus_AlwaysActive(is_admin) == "ACTIVE"

\* status: UserStatus = UserStatus.ADMIN if is_admin else UserStatus.ACTIVE
NewUserStatus(is_admin) == IF is_admin THEN "ADMIN" ELSE "ACTIVE"

\* User(id=user_id, username=username, full_name=full_name, status=status)
User(profile, status) ==
    [username |-> profile.username, full_name |-> profile.full_name, status |-> status]

\* faulty variant: the handle and the name of a user that exists are overwritten
add_user_Upserts(t) ==
    \E user_id \in UserIds, profile \in Profiles, is_admin \in BOOLEAN :
        LET task == Called(t, "add_user", "add_user_commit",
                           [user_id |-> user_id, profile |-> profile, flag |-> is_admin])
        IN  /\ Free(t)
            /\ tasks' = [tasks EXCEPT ![t] =
                    IF user_id \in DOMAIN users THEN Returned(task, None) ELSE task]
            /\ users' = IF user_id \in DOMAIN users
                         THEN Put(users, user_id, User(profile, users[user_id].status))
                         ELSE users
            /\ UNCHANGED << user_messages, roles, role_messages, write_lock >>

\* add_user up to its read: existing = session.get(User, user_id); return if it exists
add_user(t) ==
    \E user_id \in UserIds, profile \in Profiles, is_admin \in BOOLEAN :
        LET task == Called(t, "add_user", "add_user_commit",
                           [user_id |-> user_id, profile |-> profile, flag |-> is_admin])
        IN  /\ Free(t)
            /\ tasks' = [tasks EXCEPT ![t] =
                    IF user_id \in DOMAIN users THEN Returned(task, None) ELSE task]
            /\ UNCHANGED << users, user_messages, roles, role_messages, write_lock >>

\* session.add(new_user); session.commit(): the INSERT fails on a taken primary key
add_user_commit(t) ==
    LET task == tasks[t]
    IN  /\ task.pc = "add_user_commit"
        /\ CanWrite(t)
        /\ IF task.user_id \in DOMAIN users
           THEN /\ tasks' = [tasks EXCEPT ![t] = [task EXCEPT !.pc = "done", !.raised = TRUE]]
                /\ UNCHANGED users
           ELSE /\ users' = Put(users, task.user_id,
                                User(task.profile, NewUserStatus(task.flag)))
                /\ tasks' = [tasks EXCEPT ![t] = Returned(task, None)]
        /\ UNCHANGED << user_messages, roles, role_messages, write_lock >>

\* faulty variant: set_admin(False) leaves the status as it is
AdminStatus_OnlyPromotes(make_admin) == IF make_admin THEN "ADMIN" ELSE ""

\* user.status = UserStatus.ADMIN if make_admin else UserStatus.ACTIVE
AdminStatus(make_admin) == IF make_admin THEN "ADMIN" ELSE "ACTIVE"

\* faulty variant: a user that does not exist makes the handler raise
GetUserThen_Raises(t, op, user_id, flag, status) ==
    LET task == Called(t, op, "status_commit",
                       [user_id |-> user_id, flag |-> flag, status |-> status])
    IN  /\ Free(t)
        /\ tasks' = [tasks EXCEPT ![t] =
                IF user_id \notin DOMAIN users
                THEN [task EXCEPT !.pc = "done", !.raised = TRUE]
                ELSE IF status # "" THEN task ELSE Returned(task, None)]
        /\ UNCHANGED << users, user_messages, roles, role_messages, write_lock >>

\* a status handler up to its read: user = session.get(User, user_id); return if None
GetUserThen(t, op, user_id, flag, status) ==
    LET task == Called(t, op, "status_commit",
                       [user_id |-> user_id, flag |-> flag, status |-> status])
    IN  /\ Free(t)
        /\ tasks' = [tasks EXCEPT ![t] =
                IF user_id \in DOMAIN users /\ status # ""
                THEN task ELSE Returned(task, None)]
        /\ UNCHANGED << users, user_messages, roles, role_messages, write_lock >>

set_admin(t) ==
    \E user_id \in UserIds, make_admin \in BOOLEAN :
        GetUserThen(t, "set_admin", user_id, make_admin, AdminStatus(make_admin))

ban_user(t) ==
    \E user_id \in UserIds :
        GetUserThen(t, "ban_user", user_id, FALSE, "BANNED")

\* faulty variant: any status becomes ACTIVE
UnbanStatus_AnyStatus(status) == "ACTIVE"

\* if user.status == UserStatus.BANNED: user.status = UserStatus.ACTIVE; commit
UnbanStatus(status) == IF status = "BANNED" THEN "ACTIVE" ELSE ""

unban_user(t) ==
    \E user_id \in UserIds :
        GetUserThen(t, "unban_user", user_id, FALSE,
                    IF user_id \in DOMAIN users
                    THEN UnbanStatus(users[user_id].status) ELSE "")

\* session.commit() of set_admin, ban_user, unban_user: UPDATE users SET status WHERE id
status_commit(t) ==
    LET task == tasks[t]
    IN  /\ task.pc = "status_commit"
        /\ CanWrite(t)
        /\ users' = [users EXCEPT ![task.user_id].status = task.status]
        /\ tasks' = [tasks EXCEPT ![t] = Returned(task, None)]
        /\ UNCHANGED << user_messages, roles, role_messages, write_lock >>

(***************************************************************************)
(* Roles                                                                   *)
(***************************************************************************)
\* Role(name=name, region=region): occupied_by is NULL
Role(region) == [region |-> region, occupied_by |-> None]

\* init_roles: init_db(), then the session of the loop is opened
init_roles(t) ==
    \E list \in RoleLists :
        /\ Free(t)
        /\ tasks' = [tasks EXCEPT ![t] =
                Called(t, "init_roles", "init_roles_select", [list |-> list, todo |-> list])]
        /\ UNCHANGED << users, user_messages, roles, role_messages, write_lock >>

\* names of the rows the session has added and not yet committed
PendingNames(pending) == { pending[i][1] : i \in DOMAIN pending }

\* faulty variant: the SELECT does not see the rows the session has added
init_roles_select_NoAutoflush(t) ==
    LET task == tasks[t]
        item == Head(task.todo)
        known == item[1] \in DOMAIN roles
    IN  /\ task.pc = "init_roles_select"
        /\ tasks' = [tasks EXCEPT ![t] =
                [task EXCEPT !.todo = Tail(task.todo),
                             !.pending = IF known THEN task.pending
                                         ELSE Append(task.pending, item),
                             !.pc = IF Tail(task.todo) = << >>
                                    THEN "init_roles_commit" ELSE "init_roles_select"]]
        /\ UNCHANGED << users, user_messages, roles, role_messages, write_lock >>

\* one turn of the loop over the list (todo is what remains of it): the SELECT flushes
\* the session's pending rows (autoflush) and sees them;
\* if not role: session.add(Role(name=name, region=region)).
\* After the last turn the handler goes on to its commit.
init_roles_select(t) ==
    LET task == tasks[t]
        item == Head(task.todo)
        known == item[1] \in DOMAIN roles \/ item[1] \in PendingNames(task.pending)
    IN  /\ task.pc = "init_roles_select"
        /\ task.pending = << >> \/ CanWrite(t)
        /\ write_lock' = IF task.pending = << >> THEN write_lock ELSE t
        /\ tasks' = [tasks EXCEPT ![t] =
                [task EXCEPT !.todo = Tail(task.todo),
                             !.pending = IF known THEN task.pending
                                         ELSE Append(task.pending, item),
                             !.pc = IF Tail(task.todo) = << >>
                                    THEN "init_roles_commit" ELSE "init_roles_select"]]
        /\ UNCHANGED << users, user_messages, roles, role_messages >>

RECURSIVE InsertRoles(_, _)
InsertRoles(table, pending) ==
    IF pending = << >> THEN table
    ELSE InsertRoles(Put(table, Head(pending)[1], Role(Head(pending)[2])), Tail(pending))

\* faulty variant: every role of the list is written anew
init_roles_commit_Upserts(t) ==
    LET task == tasks[t]
    IN  /\ task.pc = "init_roles_commit"
        /\ CanWrite(t)
        /\ write_lock' = 0
        /\ roles' = InsertRoles(roles, task.list)
        /\ tasks' = [tasks EXCEPT ![t] = Returned(task, None)]
        /\ UNCHANGED << users, user_messages, role_messages >>

\* session.commit(): the INSERTs fail on a name that another session has committed or
\* that is inserted twice (Role.name is unique)
init_roles_commit(t) ==
    LET task == tasks[t]
    IN  /\ task.pc = "init_roles_commit"
        /\ CanWrite(t)
        /\ write_lock' = 0
        /\ IF \/ PendingNames(task.pending) \cap DOMAIN roles # {}
              \/ Cardinality(PendingNames(task.pending)) # Len(task.pending)
           THEN /\ tasks' = [tasks EXCEPT ![t] = [task EXCEPT !.pc = "done", !.raised = TRUE]]
                /\ UNCHANGED roles
           ELSE /\ roles' = InsertRoles(roles, task.pending)
                /\ tasks' = [tasks EXCEPT ![t] = Returned(task, None)]
        /\ UNCHANGED << users, user_messages, role_messages >>

\* if role is None or role.occupied_by is not None: return False
RoleIsFree(table, role_name) ==
    role_name \in DOMAIN table /\ table[role_name].occupied_by = None

\* faulty variant: the status of the user is not looked at
UserMayOccupy_AnyStatus(table, user_id) == user_id \in DOMAIN table

\* if user is None or user.status == UserStatus.BANNED: return False
UserMayOccupy(table, user_id) ==
    user_id \in DOMAIN table /\ table[user_id].status # "BANNED"

\* assign_role up to its first read: the SELECT of the role
assign_role(t) ==
    \E role_name \in AskedRoleNames, user_id \in UserIds, bot \in BOOLEAN :
        LET task == Called(t, "assign_role", "assign_role_get_user",
                           [role_name |-> role_name, user_id |-> user_id, flag |-> bot])
        IN  /\ Free(t)
            /\ tasks' = [tasks EXCEPT ![t] =
                    IF RoleIsFree(roles, role_name) THEN task ELSE Returned(task, FALSE)]
            /\ UNCHANGED << users, user_messages, roles, role_messages, write_lock >>

\* faulty variant: the occupant is written and committed before the user is checked
assign_role_get_user_WriteFirst(t) ==
    LET task == tasks[t]
    IN  /\ task.pc = "assign_role_get_user"
        /\ roles' = [roles EXCEPT ![task.role_name].occupied_by = Some(task.user_id)]
        /\ tasks' = [tasks EXCEPT ![t] =
                IF UserMayOccupy(users, task.user_id)
                THEN [task EXCEPT !.pc = "assign_role_commit"]
                ELSE Returned(task, FALSE)]
        /\ UNCHANGED << users, user_messages, role_messages, write_lock >>

\* user = session.get(User, user_id)
assign_role_get_user(t) ==
    LET task == tasks[t]
    IN  /\ task.pc = "assign_role_get_user"
        /\ tasks' = [tasks EXCEPT ![t] =
                IF UserMayOccupy(users, task.user_id)
                THEN [task EXCEPT !.pc = "assign_role_commit"]
                ELSE Returned(task, FALSE)]
        /\ UNCHANGED << users, user_messages, roles, role_messages, write_lock >>

\* what the handler returns once its resyncs are over: len(roles) or True; called on
\* its own, update_role_message returns whether its chat-edit call was made and succeeded
HandlerResult(task) ==
    CASE task.op = "release_roles_by_user" -> Cardinality(task.found)
      [] task.op = "update_role_message" ->
            task.edits # << >> /\ task.edits[Len(task.edits)].ok
      [] OTHER -> TRUE

\* faulty variant: only the first board is resynchronized
AfterCommit_FirstBoardOnly(task, todo) ==
    IF task.flag /\ todo # << >>
    THEN [task EXCEPT !.pc = "update_role_message", !.todo = << Head(todo) >>]
    ELSE Returned(task, HandlerResult(task))

\* after the commit: if bot, the boards in todo are resynchronized, else the handler returns
AfterCommit(task, todo) ==
    IF task.flag /\ todo # << >>
    THEN [task EXCEPT !.pc = "update_role_message", !.todo = todo]
    ELSE Returned(task, HandlerResult(task))

\* faulty variant: the boards are resynchronized before the occupant is committed
assign_role_commit_ResyncsFirst(t) ==
    LET task == tasks[t]
    IN  /\ task.pc = "assign_role_commit"
        /\ CanWrite(t)
        /\ tasks' = [tasks EXCEPT ![t] =
                AfterCommit(task, << GameTypeOf(roles[task.role_name].region) >>)]
        /\ UNCHANGED << users, user_messages, roles, role_messages, write_lock >>

\* role.occupied_by = user_id; session.commit(): UPDATE roles SET occupied_by WHERE id
assign_role_commit(t) ==
    LET task == tasks[t]
    IN  /\ task.pc = "assign_role_commit"
        /\ CanWrite(t)
        /\ roles' = [roles EXCEPT ![task.role_name].occupied_by = Some(task.user_id)]
        /\ tasks' = [tasks EXCEPT ![t] =
                AfterCommit(task, << GameTypeOf(roles[task.role_name].region) >>)]
        /\ UNCHANGED << users, user_messages, role_messages, write_lock >>

\* faulty variant: a free role passes the check
RoleIsOccupied_AnyRole(table, role_name) == role_name \in DOMAIN table

\* if role is None or role.occupied_by is None: return False
RoleIsOccupied(table, role_name) ==
    role_name \in DOMAIN table /\ table[role_name].occupied_by # None

\* release_role up to its read: the SELECT of the role
release_role(t) ==
    \E role_name \in AskedRoleNames, bot \in BOOLEAN :
        LET task == Called(t, "release_role", "release_role_commit",
                           [role_name |-> role_name, flag |-> bot])
        IN  /\ Free(t)
            /\ tasks' = [tasks EXCEPT ![t] =
                    IF RoleIsOccupied(roles, role_name) THEN task ELSE Returned(task, FALSE)]
            /\ UNCHANGED << users, user_messages, roles, role_messages, write_lock >>

\* faulty variant: the commit is made without the occupant having been cleared
release_role_commit_KeepsOccupant(t) ==
    LET task == tasks[t]
    IN  /\ task.pc = "release_role_commit"
        /\ CanWrite(t)
        /\ tasks' = [tasks EXCEPT ![t] =
                AfterCommit(task, << GameTypeOf(roles[task.role_name].region) >>)]
        /\ UNCHANGED << users, user_messages, roles, role_messages, write_lock >>

\* role.occupied_by = None; session.commit()
release_role_commit(t) ==
    LET task == tasks[t]
    IN  /\ task.pc = "release_role_commit"
        /\ CanWrite(t)
        /\ roles' = [roles EXCEPT ![task.role_name].occupied_by = None]
        /\ tasks' = [tasks EXCEPT ![t] =
                AfterCommit(task, << GameTypeOf(roles[task.role_name].region) >>)]
        /\ UNCHANGED << users, user_messages, role_messages, write_lock >>

\* faulty variant: the roles occupied by any user
RolesOccupiedBy_AnyUser(table, user_id) ==
    { r \in DOMAIN table : table[r].occupied_by # None }

\* select(Role).where(Role.occupied_by == user_id)
RolesOccupiedBy(table, user_id) ==
    { r \in DOMAIN table : table[r].occupied_by = Some(user_id) }

\* release_roles_by_user up to its read; with no role found it returns 0 at once
release_roles_by_user(t) ==
    \E user_id \in UserIds, bot \in BOOLEAN :
        LET found == RolesOccupiedBy(roles, user_id)
            task == Called(t, "release_roles_by_user", "release_roles_by_user_commit",
                           [user_id |-> user_id, flag |-> bot, found |-> found])
        IN  /\ Free(t)
            /\ tasks' = [tasks EXCEPT ![t] =
                    IF found # {} THEN task ELSE Returned(task, HandlerResult(task))]
            /\ UNCHANGED << users, user_messages, roles, role_messages, write_lock >>

\* for r in roles: r.occupied_by = None; session.commit()
release_roles_by_user_commit(t) ==
    LET task == tasks[t]
    IN  /\ task.pc = "release_roles_by_user_commit"
        /\ CanWrite(t)
        /\ roles' = [r \in DOMAIN roles |->
                        IF r \in task.found THEN [roles[r] EXCEPT !.occupied_by = None]
                        ELSE roles[r]]
        /\ tasks' = [tasks EXCEPT ![t] = AfterCommit(task, << "genshin", "hsr" >>)]
        /\ UNCHANGED << users, user_messages, role_messages, write_lock >>

(***************************************************************************)
(* Role boards                                                             *)
(***************************************************************************)
\* select(RoleMessage).where(RoleMessage.game_type == game_type)
BoardRows(rows, game_type) == SelectSeq(rows, LAMBDA r : r.game_type = game_type)

\* the rows without the first row equal to row (DELETE of the row that was read)
RECURSIVE DeleteRow(_, _)
DeleteRow(rows, row) ==
    IF rows = << >> THEN << >>
    ELSE IF Head(rows) = row THEN Tail(rows)
    ELSE << Head(rows) >> \o DeleteRow(Tail(rows), row)

\* save_role_message up to its read; scalar_one_or_none() raises on several rows
save_role_message(t) ==
    \E game_type \in GameTypes, channel_id \in ChannelIds, message_id \in BoardMessageIds,
       message_text \in BoardTexts :
        LET existing == BoardRows(role_messages, game_type)
            task == Called(t, "save_role_message", "save_role_message_commit",
                           [row |-> Some([game_type |-> game_type, channel_id |-> channel_id,
                                          message_id |-> message_id,
                                          message_text |-> message_text]),
                            board |-> IF existing = << >> THEN None ELSE Some(existing[1])])
        IN  /\ Free(t)
            /\ tasks' = [tasks EXCEPT ![t] =
                    IF Len(existing) > 1
                    THEN [task EXCEPT !.pc = "done", !.raised = TRUE]
                    ELSE task]
            /\ UNCHANGED << users, user_messages, roles, role_messages, write_lock >>

\* if existing: session.delete(existing); session.add(new_message); session.commit()
save_role_message_commit(t) ==
    LET task == tasks[t]
        kept == IF task.board = None THEN role_messages
                ELSE DeleteRow(role_messages, Val(task.board))
    IN  /\ task.pc = "save_role_message_commit"
        /\ CanWrite(t)
        /\ role_messages' = Append(kept, Val(task.row))
        /\ tasks' = [tasks EXCEPT ![t] = Returned(task, None)]
        /\ UNCHANGED << users, user_messages, roles, write_lock >>

\* message_text.split('\n'): the lines of a text, at least one
RECURSIVE split(_)
split(text) ==
    IF \A i \in DOMAIN text : text[i] # Newline THEN << text >>
    ELSE LET i == CHOOSE k \in DOMAIN text :
                      text[k] = Newline /\ \A j \in 1 .. (k - 1) : text[j] # Newline
         IN  << SubSeq(text, 1, i - 1) >> \o split(SubSeq(text, i + 1, Len(text)))

\* '\n'.join(updated_lines)
RECURSIVE join(_)
join(lines) ==
    IF Len(lines) = 1 THEN lines[1]
    ELSE lines[1] \o << Newline >> \o join(Tail(lines))

\* line.strip(): the line without its leading and trailing whitespace
RECURSIVE strip(_)
strip(line) ==
    IF line = << >> THEN line
    ELSE IF Head(line) \in Whitespace THEN strip(Tail(line))
    ELSE IF line[Len(line)] \in Whitespace THEN strip(SubSeq(line, 1, Len(line) - 1))
    ELSE line

\* line.replace(old, ''): every occurrence of old is removed
replace(line, old) == SelectSeq(line, LAMBDA c : c # old)

\* the characters of a line as one string
RECURSIVE Concat(_)
Concat(line) == IF line = << >> THEN "" ELSE Head(line) \o Concat(Tail(line))

\* faulty variant: every line that is not a heading is rewritten as shown for a free role
updated_line_AlwaysFree(line, role_status_dict) ==
    IF strip(line) = << >> \/ \E i \in DOMAIN line : line[i] \in Markers
    THEN line
    ELSE << Concat(strip(replace(replace(strip(line), CheckMark), Clock))) >>

\* one turn of the loop over the lines: a blank line or a line with a marker is kept;
\* role_name = line.strip().replace(check, '').replace(clock, '').strip(); a known role
\* gives f"{role_name} (check)" when occupied and role_name when free; else the line
updated_line(line, role_status_dict) ==
    IF strip(line) = << >> \/ \E i \in DOMAIN line : line[i] \in Markers
    THEN line
    ELSE LET role_name == Concat(strip(replace(replace(strip(line), CheckMark), Clock)))
         IN  IF role_name \in DOMAIN role_status_dict
             THEN IF role_status_dict[role_name] # None
                  THEN << role_name, " ", CheckMark >>
                  ELSE << role_name >>
             ELSE line

\* updated_text: the stored text with every line updated
updated_text(message_text, role_status_dict) ==
    LET lines == split(message_text)
    IN  join([i \in DOMAIN lines |-> updated_line(lines[i], role_status_dict)])

\* update_role_message has returned: the next board of todo, or the handler returns
AfterResync(task) ==
    IF Tail(task.todo) = << >>
    THEN Returned([task EXCEPT !.todo = << >>], HandlerResult(task))
    ELSE [task EXCEPT !.todo = Tail(task.todo), !.pc = "update_role_message",
                      !.board = None, !.snapshot = << >>]

\* a caller calls update_role_message(game_type, bot) on its own
call_update_role_message(t) ==
    \E game_type \in GameTypes :
        /\ Free(t)
        /\ tasks' = [tasks EXCEPT ![t] =
                Called(t, "update_role_message", "update_role_message",
                       [game_type |-> game_type, todo |-> << game_type >>, flag |-> TRUE])]
        /\ UNCHANGED << users, user_messages, roles, role_messages, write_lock >>

\* faulty variant: the record of any board is taken
update_role_message_AnyBoard(t) ==
    LET task == tasks[t]
        game_type == Head(task.todo)
        found == role_messages
        called == [task EXCEPT !.calls = Append(task.calls, game_type)]
    IN  /\ task.pc = "update_role_message"
        /\ tasks' = [tasks EXCEPT ![t] =
                IF found = << >> THEN AfterResync(called)
                ELSE [called EXCEPT !.board = Some(found[1]), !.pc = "get_role_status"]]
        /\ UNCHANGED << users, user_messages, roles, role_messages, write_lock >>

\* update_role_message(game_type, bot) up to its read of the board record:
\* no record: return False; several records: scalar_one_or_none() raises
update_role_message(t) ==
    LET task == tasks[t]
        game_type == Head(task.todo)
        found == BoardRows(role_messages, game_type)
        called == [task EXCEPT !.calls = Append(task.calls, game_type)]
    IN  /\ task.pc = "update_role_message"
        /\ tasks' = [tasks EXCEPT ![t] =
                IF found = << >> THEN AfterResync(called)
                ELSE IF Len(found) > 1 THEN [called EXCEPT !.pc = "done", !.raised = TRUE]
                ELSE [called EXCEPT !.board = Some(found[1]), !.pc = "get_role_status"]]
        /\ UNCHANGED << users, user_messages, roles, role_messages, write_lock >>

\* roles_status = await self.get_role_status(): the occupancy, read in a session of its own
get_role_status(t) ==
    LET task == tasks[t]
    IN  /\ task.pc = "get_role_status"
        /\ tasks' = [tasks EXCEPT ![t] =
                [task EXCEPT !.snapshot = [r \in DOMAIN roles |-> roles[r].occupied_by],
                             !.pc = "edit_message_text"]]
        /\ UNCHANGED << users, user_messages, roles, role_messages, write_lock >>

\* faulty variant: a raise of the chat-edit call is not caught
edit_message_text_Propagates(t) ==
    \E ok \in BOOLEAN :
        LET task == tasks[t]
            edit == [game_type |-> Head(task.todo),
                     chat_id |-> Val(task.board).channel_id,
                     message_id |-> Val(task.board).message_id,
                     text |-> updated_text(Val(task.board).message_text, task.snapshot),
                     ok |-> ok]
            edited == [task EXCEPT !.edits = Append(task.edits, edit)]
        IN  /\ task.pc = "edit_message_text"
            /\ tasks' = [tasks EXCEPT ![t] =
                    IF ok THEN AfterResync(edited)
                    ELSE [edited EXCEPT !.pc = "done", !.raised = TRUE]]
            /\ UNCHANGED << users, user_messages, roles, role_messages, write_lock >>

\* faulty variant: the text that was pushed is written to the record of the board
edit_message_text_StoresText(t) ==
    \E ok \in BOOLEAN :
        LET task == tasks[t]
            edit == [game_type |-> Head(task.todo),
                     chat_id |-> Val(task.board).channel_id,
                     message_id |-> Val(task.board).message_id,
                     text |-> updated_text(Val(task.board).message_text, task.snapshot),
                     ok |-> ok]
        IN  /\ task.pc = "edit_message_text"
            /\ tasks' = [tasks EXCEPT ![t] =
                    AfterResync([task EXCEPT !.edits = Append(task.edits, edit)])]
            /\ role_messages' = [k \in DOMAIN role_messages |->
                                    IF role_messages[k] = Val(task.board)
                                    THEN [role_messages[k] EXCEPT !.message_text = edit.text]
                                    ELSE role_messages[k]]
            /\ UNCHANGED << users, user_messages, roles, write_lock >>

\* bot.edit_message_text(chat_id, message_id, text): it succeeds or raises; a raise is
\* caught and update_role_message returns False
edit_message_text(t) ==
    \E ok \in BOOLEAN :
        LET task == tasks[t]
            edit == [game_type |-> Head(task.todo),
                     chat_id |-> Val(task.board).channel_id,
                     message_id |-> Val(task.board).message_id,
                     text |-> updated_text(Val(task.board).message_text, task.snapshot),
                     ok |-> ok]
        IN  /\ task.pc = "edit_message_text"
            /\ tasks' = [tasks EXCEPT ![t] =
                    AfterResync([task EXCEPT !.edits = Append(task.edits, edit)])]
            /\ UNCHANGED << users, user_messages, roles, role_messages, write_lock >>

(***************************************************************************)
(* Messages and statistics                                                 *)
(***************************************************************************)
\* ts: the supplied datetime, with tzinfo UTC put on a naive one, or the current instant
ts(created_at, now) ==
    IF created_at # None
    THEN IF Val(created_at).tzinfo = None
         THEN [Val(created_at) EXCEPT !.tzinfo = Some(0)]
         ELSE Val(created_at)
    ELSE utc(now)

\* created_at as the column keeps it: the store is SQLite (DEFAULT_DB_URL), whose
\* DateTime column holds the wall-clock reading of ts and drops its tzinfo
StoredAt(created_at, now) == ts(created_at, now).wall

\* add_message up to its read: user = session.get(User, user_id)
add_message(t) ==
    \E user_id \in UserIds, created_at \in {None} \cup { Some(dt) : dt \in Datetimes } :
        /\ Free(t)
        /\ Len(user_messages) < MaxMessages
        /\ tasks' = [tasks EXCEPT ![t] =
                Called(t, "add_message",
                       IF user_id \in DOMAIN users
                       THEN "add_message_commit" ELSE "add_message_flush",
                       [user_id |-> user_id, at |-> created_at])]
        /\ UNCHANGED << users, user_messages, roles, role_messages, write_lock >>

\* faulty variant: the new user is committed on its own before the message is added
add_message_flush_Commits(t) ==
    LET task == tasks[t]
    IN  /\ task.pc = "add_message_flush"
        /\ CanWrite(t)
        /\ task.user_id \notin DOMAIN users
        /\ users' = Put(users, task.user_id, User([username |-> None, full_name |-> None], "ACTIVE"))
        /\ tasks' = [tasks EXCEPT ![t] = [task EXCEPT !.pc = "add_message_commit"]]
        /\ UNCHANGED << user_messages, roles, role_messages, write_lock >>

\* user = User(id=user_id, status=ACTIVE); session.add(user); session.flush():
\* the INSERT opens the write transaction and fails on a taken primary key
add_message_flush(t) ==
    LET task == tasks[t]
    IN  /\ task.pc = "add_message_flush"
        /\ CanWrite(t)
        /\ IF task.user_id \in DOMAIN users
           THEN /\ tasks' = [tasks EXCEPT ![t] = [task EXCEPT !.pc = "done", !.raised = TRUE]]
                /\ UNCHANGED write_lock
           ELSE /\ tasks' = [tasks EXCEPT ![t] =
                        [task EXCEPT !.pc = "add_message_commit",
                                     !.pending = << task.user_id >>]]
                /\ write_lock' = t
        /\ UNCHANGED << users, user_messages, roles, role_messages >>

\* faulty variant: the new message takes the place of the stored ones
add_message_commit_KeepsLatest(t) ==
    \E now \in Now :
    LET task == tasks[t]
    IN  /\ task.pc = "add_message_commit"
        /\ CanWrite(t)
        /\ users' = IF task.pending = << >> THEN users
                     ELSE Put(users, task.user_id,
                              User([username |-> None, full_name |-> None], "ACTIVE"))
        /\ user_messages' = << [user_id |-> task.user_id,
                                 created_at |-> StoredAt(task.at, now)] >>
        /\ write_lock' = 0
        /\ tasks' = [tasks EXCEPT ![t] = Returned([task EXCEPT !.now = IF task.at = None THEN Some(now) ELSE None], None)]
        /\ UNCHANGED << roles, role_messages >>

\* record = UserMessage(user_id, message_text, created_at=ts); session.add(record);
\* session.commit(): the flushed user and the message become visible together
add_message_commit(t) ==
    \E now \in Now :
    LET task == tasks[t]
    IN  /\ task.pc = "add_message_commit"
        /\ CanWrite(t)
        /\ users' = IF task.pending = << >> THEN users
                     ELSE Put(users, task.user_id,
                              User([username |-> None, full_name |-> None], "ACTIVE"))
        /\ user_messages' = Append(user_messages,
                                    [user_id |-> task.user_id,
                                     created_at |-> StoredAt(task.at, now)])
        /\ write_lock' = 0
        /\ tasks' = [tasks EXCEPT ![t] = Returned([task EXCEPT !.now = IF task.at = None THEN Some(now) ELSE None], None)]
        /\ UNCHANGED << roles, role_messages >>

\* faulty variant: a message dated exactly at the boundary is not counted
count_from_Exclusive(rows, user_id, since) ==
    Len(SelectSeq(rows, LAMBDA m : m.user_id = user_id /\ m.created_at > since))

\* select(func.count()).where(user_id == user_id, created_at >= since)
count_from(rows, user_id, since) ==
    Len(SelectSeq(rows, LAMBDA m : m.user_id = user_id /\ m.created_at >= since))

\* the boundaries of get_message_stats in the order they are counted from
Boundaries(now) ==
    << start_of_day(now), start_of_week_monday(now), start_of_month(now), epoch_start >>

\* one count of get_message_stats: the next boundary of the same now
CountNext(t, task) ==
    LET since == Boundaries(Val(task.at))[Len(task.counts) + 1]
        counts == Append(task.counts, count_from(user_messages, task.user_id, since))
    IN  /\ tasks' = [tasks EXCEPT ![t] =
                IF Len(counts) = 4 THEN Returned([task EXCEPT !.counts = counts], counts)
                ELSE [task EXCEPT !.counts = counts]]
        /\ UNCHANGED << users, user_messages, roles, role_messages, write_lock >>

\* get_message_stats: now = datetime.now(timezone.utc), then day_count
get_message_stats(t) ==
    \E user_id \in UserIds, now \in Now :
        /\ Free(t)
        /\ CountNext(t, Called(t, "get_message_stats", "get_message_stats_count",
                               [user_id |-> user_id, at |-> Some(now)]))

\* week_count, month_count, total_count
get_message_stats_count(t) ==
    /\ tasks[t].pc = "get_message_stats_count"
    /\ CountNext(t, tasks[t])

\* the caller has taken the handler's result (or its exception)
Return(t) ==
    /\ tasks[t].pc = "done"
    /\ tasks' = [tasks EXCEPT ![t] = Idle]
    /\ UNCHANGED << users, user_messages, roles, role_messages, write_lock >>

(***************************************************************************)
(* Construction                                                            *)
(***************************************************************************)
\* the connection strings a caller constructs a manager with: none, the empty string,
\* strings of whitespace, the store in memory of the tests and the default one
DbUrls == { None, Some(<< >>), Some(<< " " >>), Some(<< " ", "\t" >>), Some(<< Newline >>),
            Some(<< "sqlite+aiosqlite:///:memory:" >>), Some(DEFAULT_DB_URL) }

\* faulty variant: only the empty string is refused
refused_OnlyEmpty(db_url) == db_url = Some(<< >>)

\* if db_url is not None and not db_url.strip(): raise ValueError
refused(db_url) == db_url # None /\ strip(Val(db_url)) = << >>

\* BotDatabase(db_url): a refused connection string raises before the engine is
\* created; url = db_url or DEFAULT_DB_URL; self.engine = create_async_engine(url)
BotDatabase(t) ==
    \E db_url \in DbUrls :
        LET task == Called(t, "BotDatabase", "done", [db_url |-> db_url])
            url == IF db_url # None /\ Val(db_url) # << >> THEN Val(db_url) ELSE DEFAULT_DB_URL
        IN  /\ Free(t)
            /\ engine = None
            /\ IF refused(db_url)
               THEN /\ tasks' = [tasks EXCEPT ![t] = [task EXCEPT !.raised = TRUE]]
                    /\ UNCHANGED engine
               ELSE /\ tasks' = [tasks EXCEPT ![t] = Returned(task, None)]
                    /\ engine' = Some(url)
            /\ UNCHANGED << users, user_messages, roles, role_messages, write_lock >>

(***************************************************************************)
(* Queries: one SELECT in a session of its own, nothing is written         *)
(***************************************************************************)
\* the role names in the ascending order of the store's collation (byte order)
name_asc == << "Albedo", "Kafka" >>

\* faulty variant: ORDER BY name DESC
order_by_name_Desc(names) ==
    LET sorted == SelectSeq(name_asc, LAMBDA n : n \in names)
    IN  [i \in DOMAIN sorted |-> sorted[Len(sorted) + 1 - i]]

\* stmt.order_by(Role.name.asc())
order_by_name(names) == SelectSeq(name_asc, LAMBDA n : n \in names)

\* a row of the table roles as the Role object a query returns
RoleObject(table, name) ==
    [name |-> name, region |-> table[name].region, occupied_by |-> table[name].occupied_by]

\* faulty variant: the region argument is not looked at
region_filter_Ignored(table, names, region) == names

\* if region: stmt = stmt.where(Role.region == region); every member of RoleRegion is a
\* non-empty string and so is true
region_filter(table, names, region) ==
    IF region # None THEN { n \in names : table[n].region = Val(region) } ELSE names

\* the list a query of roles returns: the chosen rows, filtered by region, in name order
RoleQuery(table, names, region) ==
    LET sorted == order_by_name(region_filter(table, names, region))
    IN  [i \in DOMAIN sorted |-> RoleObject(table, sorted[i])]

\* get_available_roles(region): select(Role).where(Role.occupied_by.is_(None))
get_available_roles(t) ==
    \E region \in {None} \cup { Some(g) : g \in RoleRegion } :
        LET task == Called(t, "get_available_roles", "done", [region |-> region])
            free == { r \in DOMAIN roles : roles[r].occupied_by = None }
        IN  /\ Free(t)
            /\ tasks' = [tasks EXCEPT ![t] = Returned(task, RoleQuery(roles, free, region))]
            /\ UNCHANGED << users, user_messages, roles, role_messages, write_lock >>

\* get_occupied_roles(region): select(Role).where(Role.occupied_by.is_not(None))
get_occupied_roles(t) ==
    \E region \in {None} \cup { Some(g) : g \in RoleRegion } :
        LET task == Called(t, "get_occupied_roles", "done", [region |-> region])
            occupied == { r \in DOMAIN roles : roles[r].occupied_by # None }
        IN  /\ Free(t)
            /\ tasks' = [tasks EXCEPT ![t] = Returned(task, RoleQuery(roles, occupied, region))]
            /\ UNCHANGED << users, user_messages, roles, role_messages, write_lock >>

\* the lists that hold every element of a set once: the orders a SELECT without
\* ORDER BY may return its rows in
AnyOrder(S) ==
    { s \in [1 .. Cardinality(S) -> S] : { s[i] : i \in DOMAIN s } = S }

\* get_roles_by_user(user_id): select(Role.name).where(Role.occupied_by == user_id)
get_roles_by_user(t) ==
    \E user_id \in UserIds :
        \E names \in AnyOrder(RolesOccupiedBy(roles, user_id)) :
            LET task == Called(t, "get_roles_by_user", "done", [user_id |-> user_id])
            IN  /\ Free(t)
                /\ tasks' = [tasks EXCEPT ![t] = Returned(task, names)]
                /\ UNCHANGED << users, user_messages, roles, role_messages, write_lock >>

\* sum(case((Role.occupied_by.is_not(None), 1), else_=0)) over the rows of a group when
\* is_not, and sum(case((Role.occupied_by.is_(None), 1), else_=0)) otherwise
RECURSIVE sum_case(_, _, _)
sum_case(table, group, is_not) ==
    IF group = {} THEN 0
    ELSE LET r == CHOOSE x \in group : TRUE
         IN  (IF (table[r].occupied_by # None) = is_not THEN 1 ELSE 0)
             + sum_case(table, group \ {r}, is_not)

\* faulty variant: the free column counts the rows of the group
region_row_FreeIsTotal(table, region) ==
    LET group == { r \in DOMAIN table : table[r].region = region }
    IN  [total |-> Cardinality(group),
         occupied |-> sum_case(table, group, TRUE),
         free |-> Cardinality(group)]

\* the row of one group: region, count() as total, sum(case(occupied_by is not None))
\* as occupied, sum(case(occupied_by is None)) as free
region_row(table, region) ==
    LET group == { r \in DOMAIN table : table[r].region = region }
    IN  [total |-> Cardinality(group),
         occupied |-> sum_case(table, group, TRUE),
         free |-> sum_case(table, group, FALSE)]

\* get_region_stats(): GROUP BY region gives one row for each region some role has;
\* stats[region] = {"total", "occupied", "free"}
get_region_stats(t) ==
    LET task == Called(t, "get_region_stats", "done", << >>)
        regions == { roles[r].region : r \in DOMAIN roles }
    IN  /\ Free(t)
        /\ tasks' = [tasks EXCEPT ![t] =
                Returned(task, [g \in regions |-> region_row(roles, g)])]
        /\ UNCHANGED << users, user_messages, roles, role_messages, write_lock >>

\* faulty variant: include_admins is not looked at
user_ids_where_AdminsKept(table, only_active, include_admins) ==
    { u \in DOMAIN table : only_active => table[u].status # "BANNED" }

\* if only_active: where(User.status != BANNED);
\* if not include_admins: where(User.status != ADMIN)
user_ids_where(table, only_active, include_admins) ==
    { u \in DOMAIN table : /\ only_active => table[u].status # "BANNED"
                           /\ ~include_admins => table[u].status # "ADMIN" }

\* order_by(User.id.asc() if order_asc else User.id.desc())
RECURSIVE order_by_id(_, _)
order_by_id(ids, order_asc) ==
    IF ids = {} THEN << >>
    ELSE LET first == CHOOSE u \in ids :
                         \A v \in ids : IF order_asc THEN u <= v ELSE u >= v
         IN  << first >> \o order_by_id(ids \ {first}, order_asc)

\* only_active: bool = True, include_admins: bool = True, order_asc: bool = True
get_user_ids_defaults == [only_active |-> TRUE, include_admins |-> TRUE, order_asc |-> TRUE]

\* get_user_ids(only_active, include_admins, order_asc): select(User.id); an argument
\* that is not supplied has its default
get_user_ids(t) ==
    \E supplied \in SUBSET (DOMAIN get_user_ids_defaults) :
        \E args \in [supplied -> BOOLEAN] :
            LET given == [a \in DOMAIN get_user_ids_defaults |->
                              IF a \in supplied THEN args[a] ELSE get_user_ids_defaults[a]]
                task == Called(t, "get_user_ids", "done",
                               [only_active |-> given.only_active,
                                include_admins |-> given.include_admins,
                                order_asc |-> given.order_asc,
                                supplied |-> supplied])
                ids == user_ids_where(users, given.only_active, given.include_admins)
            IN  /\ Free(t)
                /\ tasks' = [tasks EXCEPT ![t] =
                        Returned(task, order_by_id(ids, given.order_asc))]
                /\ UNCHANGED << users, user_messages, roles, role_messages, write_lock >>

(***************************************************************************)
(* Middlewares                                                             *)
(***************************************************************************)
\* the kinds of event a middleware meets: Message, CallbackQuery, any other
EventKinds == {"Message", "CallbackQuery", "Other"}

\* self.user_calls[user_id] = [call_time for call_time in self.user_calls[user_id]
\*                             if current_time - call_time < self.time_period]
recent_calls(calls, current_time, time_period) ==
    SelectSeq(calls, LAMBDA call_time : current_time - call_time < time_period)

\* faulty variant: the limit is reached one call late
limit_reached_Late(calls, rate_limit) == Len(calls) > rate_limit

\* if len(self.user_calls[user_id]) >= self.rate_limit
limit_reached(calls, rate_limit) == Len(calls) >= rate_limit

\* RateLimitMiddleware.__call__(handler, event, data) up to its first await: an event
\* that is no Message and no CallbackQuery goes to the handler; current_time =
\* time.time(), a reading that is not below the last one; the old calls of the user are
\* dropped; at the limit the event is answered with the warning and None is returned,
\* else the call is recorded and the event goes to the handler
RateLimitMiddleware ==
    \E user_id \in Senders, kind \in EventKinds, current_time \in traffic.now .. MaxClock :
        LET calls == recent_calls(limiter.user_calls[user_id], current_time,
                                  limiter.time_period)
            event == [user_id |-> user_id, kind |-> kind, at |-> current_time]
            Met(result) == [traffic EXCEPT !.now = current_time,
                                           !.outcome = Some([event |-> event,
                                                             result |-> result])]
        IN  IF kind = "Other"
            THEN /\ traffic' = Met("handler")
                 /\ UNCHANGED limiter
            ELSE IF limit_reached(calls, limiter.rate_limit)
            THEN /\ limiter' = [limiter EXCEPT !.user_calls[user_id] = calls]
                 /\ traffic' = Met("warning")
            ELSE /\ limiter' = [limiter EXCEPT
                                    !.user_calls[user_id] = Append(calls, current_time)]
                 /\ traffic' = [Met("handler") EXCEPT
                                    !.forwarded[user_id][current_time] = @ + 1]

\* the types of chat a message comes from
ChatTypes == {"private", "group", "supergroup", "channel"}

\* the username and full name of a sender
Sender == [username |-> Some("neo"), full_name |-> Some("Thomas Anderson")]

\* the events MessageCounterMiddleware meets: messages of every chat type, from users
\* and from bots, and events that are no Message
Events ==
    [kind : {"Message"}, chat_type : ChatTypes, is_bot : BOOLEAN,
     user_id : Senders, profile : {Sender}]
    \cup [kind : {"CallbackQuery"}, chat_type : {"private"}, is_bot : {FALSE},
          user_id : Senders, profile : {Sender}]

\* message.date: an aware datetime in UTC, here the epoch
message_date == [wall |-> epoch_start, tzinfo |-> Some(0)]

\* event.chat.type in (ChatType.GROUP, ChatType.SUPERGROUP) and not event.from_user.is_bot
is_counted(event) == event.chat_type \in {"group", "supergroup"} /\ ~event.is_bot

\* the event of task t moves on to position pc
Passed(t, pc, failed) == [pipeline EXCEPT ![t].pc = pc, ![t].failed = failed]

\* MessageCounterMiddleware.__call__(handler, event, data) up to its first await: an
\* event that is no Message, or a message that is not counted, goes to the handler; for
\* a counted message process_group_message calls db.add_user with the sender's id,
\* username and full name
MessageCounterMiddleware(t) ==
    \E event \in Events :
        LET met == [NoEvent EXCEPT !.event = Some(event)]
        IN  /\ pipeline[t].pc \in {"idle", "returned"}
            /\ IF event.kind = "Message" /\ is_counted(event)
               THEN /\ add_user(t)
                    /\ tasks'[t].user_id = event.user_id
                    /\ tasks'[t].profile = event.profile
                    /\ ~tasks'[t].flag
                    /\ pipeline' = [pipeline EXCEPT ![t] = [met EXCEPT !.pc = "add_user"]]
               ELSE /\ Free(t)
                    /\ pipeline' = [pipeline EXCEPT ![t] = [met EXCEPT !.pc = "handler"]]
                    /\ UNCHANGED << users, user_messages, roles, role_messages,
                                    write_lock, tasks >>

\* faulty variant: an exception of db.add_user leaves the middleware
process_group_message_added_user_Propagates(t) ==
    /\ pipeline[t].pc = "add_user"
    /\ Return(t)
    /\ pipeline' = IF tasks[t].raised THEN Passed(t, "returned", TRUE)
                   ELSE Passed(t, "add_message", FALSE)

\* await db.add_user(...) is over: its exception is caught and logged by __call__
\* (except Exception), which goes on to the handler; else db.add_message is next
process_group_message_added_user(t) ==
    /\ pipeline[t].pc = "add_user"
    /\ Return(t)
    /\ pipeline' = IF tasks[t].raised THEN Passed(t, "handler", TRUE)
                   ELSE Passed(t, "add_message", FALSE)

\* await db.add_message(user_id, message_text, created_at=message.date) up to its read
process_group_message_add_message(t) ==
    /\ pipeline[t].pc = "add_message"
    /\ add_message(t)
    /\ tasks'[t].user_id = Val(pipeline[t].event).user_id
    /\ tasks'[t].at = Some(message_date)
    /\ pipeline' = Passed(t, "add_message_called", FALSE)

\* await db.add_message(...) is over: its exception is caught and logged as well
process_group_message_added_message(t) ==
    /\ pipeline[t].pc = "add_message_called"
    /\ Return(t)
    /\ pipeline' = Passed(t, "handler", tasks[t].raised)

\* return await handler(event, data)
call_handler(t) ==
    /\ pipeline[t].pc = "handler"
    /\ pipeline' = [pipeline EXCEPT ![t].pc = "returned", ![t].handled = @ + 1]
    /\ UNCHANGED << users, user_messages, roles, role_messages, write_lock, tasks >>

(***************************************************************************)
(* The form of /new.  A text is the sequence of its characters: "d" and    *)
(* "D" stand for a small and a capital Cyrillic letter, "x" and "X" for    *)
(* Latin ones.                                                             *)
(***************************************************************************)
Cyrillic == {"d", "D"}
Letters == Cyrillic \cup {"x", "X"}

\* TOPIC_TYPE: str = "anketa"
TOPIC_TYPE == "anketa"

\* message.text of the messages a user sends into the form: Cyrillic with a leading
\* space, Latin, whitespace only, or None for a message without a text
MessageTexts == { None, Some(<< " ", "d", "D" >>), Some(<< "x" >>), Some(<< " " >>) }

\* bool(re.fullmatch(r"[...]+", text)), the class holding the Cyrillic letters, \s and -
validate_russian_text(text) ==
    /\ text # << >>
    /\ \A i \in DOMAIN text : text[i] \in Cyrillic \cup Whitespace \cup {"-"}

\* str.upper and str.lower of one character
upper(c) == IF c = "d" THEN "D" ELSE IF c = "x" THEN "X" ELSE c
lower(c) == IF c = "D" THEN "d" ELSE IF c = "X" THEN "x" ELSE c

\* text.title(): a letter after a letter is made small, any other letter capital
title(text) ==
    [i \in DOMAIN text |->
        IF text[i] \notin Letters THEN text[i]
        ELSE IF i > 1 /\ text[i - 1] \in Letters THEN lower(text[i])
        ELSE upper(text[i])]

\* the keys submit_new_cmd reads from the data of the state
FormKeys == {"role", "sortol", "code_phrase"}

\* what a handler of the form did: its result, the thread it is about, the keys of the
\* data it read and the user it wrote to
Did(handler, user_id, result) ==
    Some([handler |-> handler, user_id |-> user_id, result |-> result,
          thread_id |-> 0, keys |-> {}, to |-> 0])

\* /new, or the button 'new': state.clear(); state.set_state(NewStates.role); the role
\* is asked for
new_cmd(user_id) ==
    /\ fsm' = [fsm EXCEPT ![user_id] = [state |-> Some("role"), data |-> << >>]]
    /\ answer' = Did("new_cmd", user_id, "asked")
    /\ UNCHANGED << user_topic_map, dialog >>

\* process_role and process_sortol: a message without a text makes re.fullmatch raise;
\* a text that is not validated is answered with the error and the handler returns;
\* else state.update_data(key=message.text.strip().title()); state.set_state(next)
capture(handler, user_id, state, key, next) ==
    \E text \in MessageTexts :
        /\ fsm[user_id].state = Some(state)
        /\ IF text = None
           THEN /\ answer' = Did(handler, user_id, "raised")
                /\ UNCHANGED fsm
           ELSE IF ~validate_russian_text(Val(text))
           THEN /\ answer' = Did(handler, user_id, "error")
                /\ UNCHANGED fsm
           ELSE /\ fsm' = [fsm EXCEPT ![user_id] =
                              [state |-> Some(next),
                               data |-> Put(@.data, key, title(strip(Val(text))))]]
                /\ answer' = Did(handler, user_id, "asked")
        /\ UNCHANGED << user_topic_map, dialog >>

\* @router.message(NewStates.role)
process_role(user_id) == capture("process_role", user_id, "role", "role", "sorol")

\* @router.message(NewStates.sorol)
process_sortol(user_id) ==
    capture("process_sortol", user_id, "sorol", "sortol", "code_phrase")

\* @router.message(NewStates.code_phrase): code_phrase = message.text.strip(); an empty
\* one is answered with the error; else state.update_data(code_phrase=code_phrase) and
\* the preview is shown with the button 'submit_new'
process_code_phrase(user_id) ==
    \E text \in MessageTexts :
        /\ fsm[user_id].state = Some("code_phrase")
        /\ IF text = None
           THEN /\ answer' = Did("process_code_phrase", user_id, "raised")
                /\ UNCHANGED << fsm, dialog >>
           ELSE IF strip(Val(text)) = << >>
           THEN /\ answer' = Did("process_code_phrase", user_id, "error")
                /\ UNCHANGED << fsm, dialog >>
           ELSE /\ dialog.previews[user_id] < MaxPreviews
                /\ fsm' = [fsm EXCEPT ![user_id].data =
                              Put(@, "code_phrase", strip(Val(text)))]
                /\ dialog' = [dialog EXCEPT !.previews[user_id] = @ + 1]
                /\ answer' = Did("process_code_phrase", user_id, "preview")
        /\ UNCHANGED user_topic_map

\* @router.callback_query(F.data == "submit_new"), the button of a preview on display:
\* data = state.get_data(); the topic is created and user_topic_map[(user.id,
\* TOPIC_TYPE)] = thread_id; the text of the form reads data['role'], data['sortol']
\* and data['code_phrase'] and raises KeyError when one is missing; else the form is
\* sent into the topic with the decision keyboard, the preview is edited (its button is
\* gone) and state.clear()
submit_new_cmd(user_id) ==
    LET data == fsm[user_id].data
        thread_id == Len(dialog.topics) + 1
        complete == FormKeys \subseteq DOMAIN data
    IN  /\ dialog.previews[user_id] > 0
        /\ Len(dialog.topics) < MaxTopics
        /\ user_topic_map' = Put(user_topic_map, << user_id, TOPIC_TYPE >>, thread_id)
        /\ dialog' = [dialog EXCEPT
                          !.topics = Append(@, [user_id |-> user_id, keyboard |-> complete]),
                          !.previews[user_id] = IF complete THEN @ - 1 ELSE @]
        /\ fsm' = IF complete THEN [fsm EXCEPT ![user_id] = NoForm] ELSE fsm
        /\ answer' = Some([handler |-> "submit_new_cmd", user_id |-> user_id,
                           result |-> IF complete THEN "submitted" ELSE "raised",
                           thread_id |-> thread_id, keys |-> DOMAIN data, to |-> 0])

\* the users user_topic_map.items() gives for (kind, thread_id)
found_users(kind, thread_id) ==
    { uid \in Senders : /\ << uid, kind >> \in DOMAIN user_topic_map
                        /\ user_topic_map[<< uid, kind >>] = thread_id }

\* @router.callback_query(F.data.regexp(...)), a button 'kind:action:thread_id' of a
\* decision keyboard on display: without a user for the thread the callback is answered
\* 'user not found'; else TEXTS[kind][action] is sent to the user and the keyboard is
\* removed
process_decision_callback ==
    \E thread_id \in DOMAIN dialog.topics, action \in {"accept", "reject"} :
        LET found == found_users(TOPIC_TYPE, thread_id)
            decided(result, to) ==
                Some([handler |-> "process_decision_callback", user_id |-> 0,
                      result |-> result, thread_id |-> thread_id, keys |-> {},
                      to |-> to])
        IN  /\ dialog.topics[thread_id].keyboard
            /\ IF found = {}
               THEN /\ answer' = decided("not_found", 0)
                    /\ UNCHANGED dialog
               ELSE /\ answer' = decided(action, CHOOSE uid \in found : TRUE)
                    /\ dialog' = [dialog EXCEPT !.topics[thread_id].keyboard = FALSE]
            /\ UNCHANGED << fsm, user_topic_map >>

(***************************************************************************)
(* Specifications                                                          *)
(***************************************************************************)
\* the seeding lists that give every name one region, and those of them with one role
OneRegionLists == { list \in RoleLists :
                      \A i \in DOMAIN list : list[i] \in {<<"Albedo", "MONDSTADT">>, <<"Kafka", "HSR_STAR">>} }
OneRoleLists == { list \in OneRegionLists : Len(list) = 1 }

\* the board records of a caller that publishes each board once, in one place
PlainBoards == { [game_type |-> g, channel_id |-> 100, message_id |-> 1,
                  message_text |-> PlainText] : g \in GameTypes }

\* a caller that registers users without a handle and a name
NoProfile == [username |-> None, full_name |-> None]

\* The observer of the one caller: it remembers the tables at the call of a handler and
\* forgets them when the caller has taken the result.
Remember ==
    before' = IF tasks[1].pc = "idle" /\ tasks'[1].pc # "idle" THEN Tables
              ELSE IF tasks'[1].pc = "idle" THEN NoTables
              ELSE before

Observed(A) == A /\ Remember /\ UNCHANGED << rejected, engine, chat, bot_vars >>

\* The observer of a scenario also keeps, when the caller takes the result of an
\* assign_role, whether that attempt met an occupied role.
Scenario(A) ==
    /\ A
    /\ Remember
    /\ UNCHANGED << engine, chat, bot_vars >>
    /\ LET task == tasks[1]
           attempt == << task.role_name, task.user_id >>
       IN  rejected' =
               IF task.op = "assign_role" /\ tasks'[1].pc = "idle"
               THEN IF task.result = Some(FALSE) /\ RoleIsOccupied(before.roles, task.role_name)
                    THEN rejected \cup {attempt}
                    ELSE rejected \ {attempt}
               ELSE rejected

\* The role protocol with one caller: every handler is awaited before the next one is
\* called.  Users are registered without a handle and a name.
Next ==
    \/ Observed(add_user(1) /\ tasks'[1].profile = NoProfile)
    \/ Observed(add_user_commit(1))
    \/ Observed(set_admin(1))
    \/ Observed(ban_user(1))
    \/ Observed(unban_user(1))
    \/ Observed(status_commit(1))
    \/ Observed(init_roles(1) /\ tasks'[1].list \in OneRegionLists)
    \/ Observed(init_roles_select(1))
    \/ Observed(init_roles_commit(1))
    \/ Observed(assign_role(1))
    \/ Observed(assign_role_get_user(1))
    \/ Observed(assign_role_commit(1))
    \/ Observed(release_role(1))
    \/ Observed(release_role_commit(1))
    \/ Observed(release_roles_by_user(1))
    \/ Observed(release_roles_by_user_commit(1))
    \/ Observed(save_role_message(1) /\ Val(tasks'[1].row) \in PlainBoards)
    \/ Observed(save_role_message_commit(1))
    \/ Observed(update_role_message(1))
    \/ Observed(get_role_status(1))
    \/ Observed(edit_message_text(1))
    \/ Observed(Return(1))

Spec == Init /\ [][Next]_vars

\* The user handlers with one caller and every profile.
NextUsers ==
    \/ Observed(add_user(1))
    \/ Observed(add_user_commit(1))
    \/ Observed(set_admin(1))
    \/ Observed(ban_user(1))
    \/ Observed(unban_user(1))
    \/ Observed(status_commit(1))
    \/ Observed(Return(1))

SpecUsers == Init /\ [][NextUsers]_vars

\* One caller recording messages, dated by datetimes of any zone or by the clock.
NextClock ==
    \/ Observed(add_message(1))
    \/ Observed(add_message_flush(1))
    \/ Observed(add_message_commit(1))
    \/ Observed(Return(1))

SpecClock == Init /\ [][NextClock]_vars

\* One caller recording messages, dated by naive datetimes or by the clock, and asking
\* for statistics.
NextStats ==
    \/ Observed(add_message(1) /\ tasks'[1].at \in {None} \cup {Some(dt) : dt \in NaiveDatetimes})
    \/ Observed(add_message_flush(1))
    \/ Observed(add_message_commit(1))
    \/ Observed(get_message_stats(1))
    \/ Observed(get_message_stats_count(1))
    \/ Observed(Return(1))

SpecStats == Init /\ [][NextStats]_vars

\* The scenarios of one role changing hands: one caller registers plain users, seeds
\* one-role lists, assigns and releases, with no chat-edit capability.
NextScenario ==
    \/ Scenario(add_user(1) /\ tasks'[1].profile = NoProfile /\ ~tasks'[1].flag)
    \/ Scenario(add_user_commit(1))
    \/ Scenario(ban_user(1))
    \/ Scenario(status_commit(1))
    \/ Scenario(init_roles(1) /\ tasks'[1].list \in OneRoleLists)
    \/ Scenario(init_roles_select(1))
    \/ Scenario(init_roles_commit(1))
    \/ Scenario(assign_role(1) /\ ~tasks'[1].flag)
    \/ Scenario(assign_role_get_user(1))
    \/ Scenario(assign_role_commit(1))
    \/ Scenario(release_role(1) /\ ~tasks'[1].flag)
    \/ Scenario(release_role_commit(1))
    \/ Scenario(Return(1))

SpecScenario == Init /\ [][NextScenario]_vars

\* One caller seeding and re-seeding the roles with any list, between assignments to
\* plain users; no chat-edit capability is supplied.
NextRoles ==
    \/ Observed(add_user(1) /\ tasks'[1].profile = NoProfile /\ ~tasks'[1].flag)
    \/ Observed(add_user_commit(1))
    \/ Observed(init_roles(1))
    \/ Observed(init_roles_select(1))
    \/ Observed(init_roles_commit(1))
    \/ Observed(assign_role(1) /\ ~tasks'[1].flag)
    \/ Observed(assign_role_get_user(1))
    \/ Observed(assign_role_commit(1))
    \/ Observed(Return(1))

SpecRoles == Init /\ [][NextRoles]_vars

\* One caller publishing boards of any text in two places, seeding one-role lists,
\* assigning to and releasing from the plain user 1, and resynchronizing boards, by
\* itself or through the role handlers.
NextBoards ==
    \/ Observed(add_user(1) /\ tasks'[1].profile = NoProfile /\ ~tasks'[1].flag
                            /\ tasks'[1].user_id = 1)
    \/ Observed(add_user_commit(1))
    \/ Observed(init_roles(1) /\ tasks'[1].list \in OneRoleLists)
    \/ Observed(init_roles_select(1))
    \/ Observed(init_roles_commit(1))
    \/ Observed(assign_role(1) /\ tasks'[1].user_id = 1)
    \/ Observed(assign_role_get_user(1))
    \/ Observed(assign_role_commit(1))
    \/ Observed(release_role(1))
    \/ Observed(release_role_commit(1))
    \/ Observed(save_role_message(1) /\ Val(tasks'[1].row).channel_id
                                         = 100 * Val(tasks'[1].row).message_id)
    \/ Observed(save_role_message_commit(1))
    \/ Observed(call_update_role_message(1))
    \/ Observed(update_role_message(1))
    \/ Observed(get_role_status(1))
    \/ Observed(edit_message_text(1))
    \/ Observed(Return(1))

SpecBoards == Init /\ [][NextBoards]_vars

\* One caller seeding roles with any list, assigning them to and releasing them from
\* plain users, and asking which roles are free, occupied, held by a user, and how many
\* there are in each region; no chat-edit capability is supplied.
NextQueries ==
    \/ Observed(add_user(1) /\ tasks'[1].profile = NoProfile /\ ~tasks'[1].flag)
    \/ Observed(add_user_commit(1))
    \/ Observed(init_roles(1))
    \/ Observed(init_roles_select(1))
    \/ Observed(init_roles_commit(1))
    \/ Observed(assign_role(1) /\ ~tasks'[1].flag)
    \/ Observed(assign_role_get_user(1))
    \/ Observed(assign_role_commit(1))
    \/ Observed(release_role(1) /\ ~tasks'[1].flag)
    \/ Observed(release_role_commit(1))
    \/ Observed(get_available_roles(1))
    \/ Observed(get_occupied_roles(1))
    \/ Observed(get_roles_by_user(1))
    \/ Observed(get_region_stats(1))
    \/ Observed(Return(1))

SpecQueries == Init /\ [][NextQueries]_vars

\* One caller registering users, changing their status and asking for the ids.
NextUserIds ==
    \/ Observed(add_user(1) /\ tasks'[1].profile = NoProfile)
    \/ Observed(add_user_commit(1))
    \/ Observed(set_admin(1))
    \/ Observed(ban_user(1))
    \/ Observed(unban_user(1))
    \/ Observed(status_commit(1))
    \/ Observed(get_user_ids(1))
    \/ Observed(Return(1))

SpecUserIds == Init /\ [][NextUserIds]_vars

\* One caller applying every handler that writes to user 1, registered with any
\* profile, and to one role; messages are dated at the epoch and no chat-edit
\* capability is supplied.
NextFrame ==
    \/ Observed(add_user(1) /\ tasks'[1].user_id = 1)
    \/ Observed(add_user_commit(1))
    \/ Observed(add_message(1) /\ tasks'[1].user_id = 1
                               /\ tasks'[1].at = Some([wall |-> epoch_start, tzinfo |-> None]))
    \/ Observed(add_message_flush(1))
    \/ Observed(add_message_commit(1))
    \/ Observed(set_admin(1) /\ tasks'[1].user_id = 1)
    \/ Observed(ban_user(1) /\ tasks'[1].user_id = 1)
    \/ Observed(unban_user(1) /\ tasks'[1].user_id = 1)
    \/ Observed(status_commit(1))
    \/ Observed(init_roles(1) /\ tasks'[1].list = << << "Albedo", "MONDSTADT" >> >>)
    \/ Observed(init_roles_select(1))
    \/ Observed(init_roles_commit(1))
    \/ Observed(assign_role(1) /\ ~tasks'[1].flag /\ tasks'[1].user_id = 1)
    \/ Observed(assign_role_get_user(1))
    \/ Observed(assign_role_commit(1))
    \/ Observed(release_role(1) /\ ~tasks'[1].flag)
    \/ Observed(release_role_commit(1))
    \/ Observed(release_roles_by_user(1) /\ ~tasks'[1].flag /\ tasks'[1].user_id = 1)
    \/ Observed(release_roles_by_user_commit(1))
    \/ Observed(Return(1))

SpecFrame == Init /\ [][NextFrame]_vars

\* One caller with a chat-edit capability: it registers the plain user 1, seeds roles,
\* publishes each board once, and assigns and releases roles, every change being
\* followed by its resyncs.
NextResync ==
    \/ Observed(add_user(1) /\ tasks'[1].profile = NoProfile /\ ~tasks'[1].flag
                            /\ tasks'[1].user_id = 1)
    \/ Observed(add_user_commit(1))
    \/ Observed(init_roles(1) /\ tasks'[1].list \in OneRegionLists)
    \/ Observed(init_roles_select(1))
    \/ Observed(init_roles_commit(1))
    \/ Observed(save_role_message(1) /\ Val(tasks'[1].row) \in PlainBoards)
    \/ Observed(save_role_message_commit(1))
    \/ Observed(assign_role(1) /\ tasks'[1].flag /\ tasks'[1].user_id = 1)
    \/ Observed(assign_role_get_user(1))
    \/ Observed(assign_role_commit(1))
    \/ Observed(release_role(1) /\ tasks'[1].flag)
    \/ Observed(release_role_commit(1))
    \/ Observed(release_roles_by_user(1) /\ tasks'[1].flag /\ tasks'[1].user_id = 1)
    \/ Observed(release_roles_by_user_commit(1))
    \/ Observed(update_role_message(1))
    \/ Observed(get_role_status(1))
    \/ Observed(edit_message_text(1))
    \/ Observed(Return(1))

SpecResync == Init /\ [][NextResync]_vars

\* One caller seeding and re-seeding the roles with any list, assigning them to the
\* plain user 1 and releasing them, one by one and all at once; no chat-edit capability
\* is supplied.
NextRoleFrame ==
    \/ Observed(add_user(1) /\ tasks'[1].profile = NoProfile /\ ~tasks'[1].flag
                            /\ tasks'[1].user_id = 1)
    \/ Observed(add_user_commit(1))
    \/ Observed(init_roles(1))
    \/ Observed(init_roles_select(1))
    \/ Observed(init_roles_commit(1))
    \/ Observed(assign_role(1) /\ ~tasks'[1].flag /\ tasks'[1].user_id = 1)
    \/ Observed(assign_role_get_user(1))
    \/ Observed(assign_role_commit(1))
    \/ Observed(release_role(1) /\ ~tasks'[1].flag)
    \/ Observed(release_role_commit(1))
    \/ Observed(release_roles_by_user(1) /\ ~tasks'[1].flag /\ tasks'[1].user_id = 1)
    \/ Observed(release_roles_by_user_commit(1))
    \/ Observed(Return(1))

SpecRoleFrame == Init /\ [][NextRoleFrame]_vars

\* a handler of the manager is called once the manager has been constructed
Constructed(A) == engine # None /\ Observed(A)

\* A caller that constructs a manager of its own, with any connection string, and then
\* registers users and changes their status.
NextConstruct ==
    \/ BotDatabase(1) /\ Remember /\ UNCHANGED << rejected, chat, bot_vars >>
    \/ Constructed(add_user(1) /\ tasks'[1].profile = NoProfile)
    \/ Constructed(add_user_commit(1))
    \/ Constructed(ban_user(1))
    \/ Constructed(status_commit(1))
    \/ Observed(Return(1))

\* no manager has been constructed yet
Unconstructed ==
    /\ EmptyStore
    /\ engine = None
    /\ limiter = NewLimiter(10, 2)

SpecConstruct == Unconstructed /\ [][NextConstruct]_vars

\* with several callers nothing is observed
Unobserved(A) == A /\ UNCHANGED << before, rejected, engine, chat, bot_vars >>

\* The role protocol with MaxTasks callers: handlers are in flight together and
\* interleave at their awaits.  No chat-edit capability is supplied, users are
\* registered as plain users, and a seeding list holds one role.
NextConc ==
    \E t \in Tasks :
        \/ Unobserved(add_user(t) /\ tasks'[t].profile = NoProfile /\ ~tasks'[t].flag)
        \/ Unobserved(add_user_commit(t))
        \/ Unobserved(ban_user(t))
        \/ Unobserved(status_commit(t))
        \/ Unobserved(init_roles(t) /\ tasks'[t].list \in OneRoleLists)
        \/ Unobserved(init_roles_select(t))
        \/ Unobserved(init_roles_commit(t))
        \/ Unobserved(assign_role(t) /\ ~tasks'[t].flag)
        \/ Unobserved(assign_role_get_user(t))
        \/ Unobserved(assign_role_commit(t))
        \/ Unobserved(release_role(t) /\ ~tasks'[t].flag)
        \/ Unobserved(release_role_commit(t))
        \/ Unobserved(Return(t))

SpecConc == Init /\ [][NextConc]_vars

\* Boards published by MaxTasks callers: the save_role_message handlers are in flight
\* together and interleave at their awaits.  Each board is published in one channel
\* with one text.
NextBoardsConc ==
    \E t \in Tasks :
        \/ Unobserved(/\ save_role_message(t)
                      /\ Val(tasks'[t].row).channel_id = 100
                      /\ Val(tasks'[t].row).message_text = PlainText)
        \/ Unobserved(save_role_message_commit(t))
        \/ Unobserved(Return(t))

SpecBoardsConc == Init /\ [][NextBoardsConc]_vars

\* The chat as the handlers of all callers leave it: a chat-edit call that succeeds
\* puts its text in the place it addresses.
Pushed(A) ==
    /\ A
    /\ UNCHANGED << before, rejected, engine, bot_vars >>
    /\ LET pushing == { t \in Tasks : Len(tasks'[t].edits) > Len(tasks[t].edits) }
       IN  chat' = IF pushing = {} THEN chat
                   ELSE LET edit == tasks'[CHOOSE t \in pushing : TRUE].edits[
                                        Len(tasks'[CHOOSE t \in pushing : TRUE].edits)]
                        IN  IF edit.ok
                            THEN Put(chat, << edit.chat_id, edit.message_id >>, edit.text)
                            ELSE chat

\* One role changing hands under MaxTasks callers that have a chat-edit capability:
\* the first caller registers the plain user 1, seeds the role and publishes the
\* genshin board; every caller assigns the role to that user and releases it, handlers
\* are in flight together and interleave at their awaits, and every chat-edit call
\* succeeds.
NextResyncConc ==
    \/ Pushed(add_user(1) /\ tasks'[1].profile = NoProfile /\ ~tasks'[1].flag
                          /\ tasks'[1].user_id = 1)
    \/ Pushed(add_user_commit(1))
    \/ Pushed(init_roles(1) /\ tasks'[1].list = << << "Albedo", "MONDSTADT" >> >>)
    \/ Pushed(init_roles_select(1))
    \/ Pushed(init_roles_commit(1))
    \/ Pushed(save_role_message(1) /\ Val(tasks'[1].row) \in PlainBoards
                                   /\ Val(tasks'[1].row).game_type = "genshin")
    \/ Pushed(save_role_message_commit(1))
    \/ \E t \in Tasks :
        \/ Pushed(assign_role(t) /\ tasks'[t].flag /\ tasks'[t].user_id = 1
                                 /\ tasks'[t].role_name = "Albedo")
        \/ Pushed(assign_role_get_user(t))
        \/ Pushed(assign_role_commit(t))
        \/ Pushed(release_role(t) /\ tasks'[t].flag /\ tasks'[t].role_name = "Albedo")
        \/ Pushed(release_role_commit(t))
        \/ Pushed(update_role_message(t))
        \/ Pushed(get_role_status(t))
        \/ Pushed(edit_message_text(t) /\ tasks'[t].edits[Len(tasks'[t].edits)].ok)
        \/ Pushed(Return(t))

SpecResyncConc == Init /\ [][NextResyncConc]_vars

\* First activity of user 1 under MaxTasks callers: registrations and messages dated at
\* the epoch are in flight together and interleave at their awaits.
NextFirstActivity ==
    \E t \in Tasks :
        \/ Unobserved(add_user(t) /\ tasks'[t].profile = NoProfile /\ ~tasks'[t].flag
                                  /\ tasks'[t].user_id = 1)
        \/ Unobserved(add_user_commit(t))
        \/ Unobserved(add_message(t) /\ tasks'[t].user_id = 1
                                     /\ tasks'[t].at = Some([wall |-> epoch_start, tzinfo |-> None]))
        \/ Unobserved(add_message_flush(t))
        \/ Unobserved(add_message_commit(t))
        \/ Unobserved(Return(t))

SpecFirstActivity == Init /\ [][NextFirstActivity]_vars

\* the persistence manager is not called
Outside(A) ==
    /\ A
    /\ UNCHANGED << users, user_messages, roles, role_messages, write_lock, tasks,
                    engine, chat, pipeline, form_vars, before, rejected >>

\* no event has arrived at a rate limit constructed with some limit and period
RateLimitInit ==
    /\ EmptyStore
    /\ engine = Some(DEFAULT_DB_URL)
    /\ \E rate_limit \in 0 .. MaxRate, time_period \in 1 .. MaxPeriod :
           limiter = NewLimiter(rate_limit, time_period)

\* The events of two senders arriving at a rate limit, at readings of the clock that
\* do not decrease.
NextRateLimit ==
    \/ Outside(RateLimitMiddleware)

SpecRateLimit == RateLimitInit /\ [][NextRateLimit]_vars

\* the tasks that pass updates on
Updates == {1, 2}

\* a step of the persistence manager below the middleware: the observer counts the
\* message rows stored for the event of the task
Below(t, A) ==
    /\ A
    /\ pipeline' = [pipeline EXCEPT ![t].recorded =
                        @ + Len(user_messages') - Len(user_messages)]
    /\ UNCHANGED << engine, chat, limiter, traffic, form_vars, before, rejected >>

\* a step of the middleware
Middle(A) ==
    A /\ UNCHANGED << engine, chat, limiter, traffic, form_vars, before, rejected >>

\* The events of two updates in flight through MessageCounterMiddleware: each task
\* passes one event at a time on to the handler, the tasks interleave at their awaits.
\* A sender is registered by add_user before add_message reads it and no user is ever
\* deleted, so add_message finds the user and never takes its flush step.
NextCounter ==
    \E t \in Updates :
        \/ Middle(MessageCounterMiddleware(t))
        \/ Below(t, add_user_commit(t))
        \/ Middle(process_group_message_added_user(t))
        \/ Middle(process_group_message_add_message(t))
        \/ Below(t, add_message_commit(t))
        \/ Middle(process_group_message_added_message(t))
        \/ Middle(call_handler(t))

SpecCounter == Init /\ [][NextCounter]_vars

\* a handler of the form: the persistence manager and the middlewares are not met
InForm(A) ==
    /\ A
    /\ UNCHANGED << users, user_messages, roles, role_messages, write_lock, tasks,
                    engine, chat, limiter, traffic, pipeline, before, rejected >>

\* The form of /new used by two users, one handler at a time, and the decisions taken
\* in the topics of the support chat.
NextForm ==
    \/ \E user_id \in Senders :
           \/ InForm(new_cmd(user_id))
           \/ InForm(process_role(user_id))
           \/ InForm(process_sortol(user_id))
           \/ InForm(process_code_phrase(user_id))
           \/ InForm(submit_new_cmd(user_id))
    \/ InForm(process_decision_callback)

SpecForm == Init /\ [][NextForm]_vars

(***************************************************************************)
(* Properties.  T is the task of the one caller; a handler that has        *)
(* returned stays visible, with its arguments and result, until the        *)
(* caller takes the result.                                                *)
(***************************************************************************)
T == tasks[1]

Done(op) == T.op = op /\ T.pc = "done"

\* the boards a handler made a chat-edit call for, in call order
EditedBoards(task) == [i \in DOMAIN task.edits |-> task.edits[i].game_type]

\* the boards that have a stored record, in the order release_roles_by_user visits them
StoredBoards == SelectSeq(<< "genshin", "hsr" >>, LAMBDA g : BoardRows(role_messages, g) # << >>)

\* C1: assign_role(r, u) returns true iff r exists, its occupant is null, u exists and u
\* is not BANNED (it returns false otherwise); after a true return occupant(r) = u.
C1_AssignRoleIff ==
    Done("assign_role") =>
        LET r == T.role_name
            u == T.user_id
            pre == /\ r \in DOMAIN before.roles
                   /\ before.roles[r].occupied_by = None
                   /\ u \in DOMAIN before.users
                   /\ before.users[u].status # "BANNED"
        IN  /\ pre => T.result = Some(TRUE)
            /\ ~pre => T.result = Some(FALSE)
            /\ T.result = Some(TRUE) => roles[r].occupied_by = Some(u)

\* assign_role has returned true and the role is held by the user it was called for
C1_Witness ==
    /\ Done("assign_role")
    /\ T.result = Some(TRUE)
    /\ roles[T.role_name].occupied_by = Some(T.user_id)

\* C2: of the assign_role calls in flight together for one unoccupied role, with
\* different users, at most one returns true: an assign_role that returns true did not
\* commit onto a role that another user's assign_role had occupied since it read the
\* role as unoccupied.
C2_OneWinnerPerRole ==
    [][\A t \in Tasks :
          (/\ tasks[t].pc = "assign_role_commit"
           /\ tasks'[t].pc = "done"
           /\ tasks'[t].result = Some(TRUE))
          => roles[tasks[t].role_name].occupied_by \in {None, Some(tasks[t].user_id)}]_vars

\* C3: every occupied role is occupied by a user that is not BANNED.
C3_OccupantNotBanned ==
    \A r \in DOMAIN roles :
        roles[r].occupied_by # None =>
            /\ Val(roles[r].occupied_by) \in DOMAIN users
            /\ users[Val(roles[r].occupied_by)].status # "BANNED"

\* C4: the tuple get_message_stats returns satisfies day <= week <= month <= total.
C4_StatsOrdered ==
    Done("get_message_stats") =>
        LET c == Val(T.result)
        IN  c[1] <= c[2] /\ c[2] <= c[3] /\ c[3] <= c[4]

\* C5: release_role(r) returns false when r does not exist or is unoccupied, and then
\* no table is changed, no resync is started and no chat-edit call is made.
C5_ReleaseFreeRoleIsNoOp ==
    (/\ Done("release_role")
     /\ ~(/\ T.role_name \in DOMAIN before.roles
          /\ before.roles[T.role_name].occupied_by # None))
    => /\ T.result = Some(FALSE)
       /\ Tables = before
       /\ T.calls = << >>
       /\ T.edits = << >>

\* release_role with a chat-edit capability has returned false for a seeded, unoccupied
\* role whose board has a stored record
C5_Witness ==
    /\ Done("release_role")
    /\ T.result = Some(FALSE)
    /\ T.flag
    /\ T.role_name \in DOMAIN roles
    /\ roles[T.role_name].occupied_by = None
    /\ BoardRows(role_messages, GameTypeOf(roles[T.role_name].region)) # << >>

\* C6: whenever assign_role returns false the tables are those of before the call, no
\* resync is started and no chat-edit call is made.
C6_FailedAssignIsNoOp ==
    (Done("assign_role") /\ T.result = Some(FALSE))
    => /\ Tables = before
       /\ T.calls = << >>
       /\ T.edits = << >>

\* assign_role with a chat-edit capability has returned false for a BANNED user on an
\* unoccupied role whose board has a stored record, and the role is still unoccupied
C6_Witness ==
    /\ Done("assign_role")
    /\ T.result = Some(FALSE)
    /\ T.flag
    /\ T.role_name \in DOMAIN roles
    /\ roles[T.role_name].occupied_by = None
    /\ T.user_id \in DOMAIN users
    /\ users[T.user_id].status = "BANNED"
    /\ BoardRows(role_messages, GameTypeOf(roles[T.role_name].region)) # << >>

\* C7: release_role of an occupied role returns true and clears the occupant; while the
\* role is occupied every assign_role on it returns false; on an unoccupied role
\* assign_role succeeds for every existing user that is not BANNED, whether or not an
\* earlier attempt of that user on that role was rejected.
C7_ReleaseThenAssign ==
    LET r == T.role_name
        u == T.user_id
    IN  /\ (Done("release_role") /\ r \in DOMAIN before.roles
                /\ before.roles[r].occupied_by # None)
               => (T.result = Some(TRUE) /\ roles[r].occupied_by = None)
        /\ (Done("assign_role") /\ r \in DOMAIN before.roles
                /\ before.roles[r].occupied_by # None)
               => (T.result = Some(FALSE) /\ roles[r] = before.roles[r])
        /\ (Done("assign_role") /\ r \in DOMAIN before.roles
                /\ before.roles[r].occupied_by = None
                /\ u \in DOMAIN before.users /\ before.users[u].status # "BANNED")
               => (T.result = Some(TRUE) /\ roles[r].occupied_by = Some(u))

\* assign_role has returned true for a user whose earlier attempt on the same role was
\* rejected because the role was occupied
C7_Witness ==
    /\ Done("assign_role")
    /\ T.result = Some(TRUE)
    /\ << T.role_name, T.user_id >> \in rejected

\* C8: add_user for an existing id leaves the users table as it was and raises nothing;
\* a newly created user has the supplied handle and name and the status ADMIN iff
\* is_admin, otherwise ACTIVE.
C8_AddUserIdempotent ==
    Done("add_user") =>
        LET u == T.user_id
        IN  /\ ~T.raised
            /\ u \in DOMAIN users
            /\ IF u \in DOMAIN before.users
               THEN users = before.users
               ELSE /\ users[u].username = T.profile.username
                    /\ users[u].full_name = T.profile.full_name
                    /\ users[u].status = (IF T.flag THEN "ADMIN" ELSE "ACTIVE")
                    /\ \A v \in DOMAIN before.users : users[v] = before.users[v]

\* add_user has returned for an existing BANNED user, called with is_admin and with a
\* handle other than the stored one
C8_Witness ==
    /\ Done("add_user")
    /\ T.user_id \in DOMAIN before.users
    /\ before.users[T.user_id].status = "BANNED"
    /\ T.flag
    /\ before.users[T.user_id].username # T.profile.username

\* the messages of one user
MessagesOf(rows, user_id) == SelectSeq(rows, LAMBDA m : m.user_id = user_id)

\* add_message for an unknown user creates the user as ACTIVE and appends exactly one
\* message owned by it, the two becoming visible together; every stored message is
\* owned by an existing user
C9_MessageCreatesUser ==
    /\ (Done("add_message") /\ T.user_id \notin DOMAIN before.users) =>
           /\ T.user_id \in DOMAIN users
           /\ users[T.user_id].status = "ACTIVE"
           /\ Len(user_messages) = Len(before.user_messages) + 1
           /\ SubSeq(user_messages, 1, Len(before.user_messages)) = before.user_messages
           /\ user_messages[Len(user_messages)].user_id = T.user_id
    /\ \A i \in DOMAIN user_messages : user_messages[i].user_id \in DOMAIN users
    /\ \A u \in DOMAIN users : MessagesOf(user_messages, u) # << >>

C10_ReleaseRolesByUser ==
    Done("release_roles_by_user") =>
        LET held == { r \in DOMAIN before.roles :
                        before.roles[r].occupied_by = Some(T.user_id) }
        IN  /\ DOMAIN roles = DOMAIN before.roles
            /\ \A r \in DOMAIN roles :
                   roles[r] = IF r \in held
                              THEN [before.roles[r] EXCEPT !.occupied_by = None]
                              ELSE before.roles[r]
            /\ T.result = Some(Cardinality(held))
            /\ IF held # {} /\ T.flag
               THEN T.calls = << "genshin", "hsr" >> /\ EditedBoards(T) = StoredBoards
               ELSE T.calls = << >> /\ T.edits = << >>

\* release_roles_by_user has returned 2 for a user that held a role of either category,
\* and both boards got their chat-edit call
C10_Witness ==
    /\ Done("release_roles_by_user")
    /\ T.result = Some(2)
    /\ { before.roles[r].region : r \in RolesOccupiedBy(before.roles, T.user_id) }
           = { "MONDSTADT", "HSR_STAR" }
    /\ EditedBoards(T) = << "genshin", "hsr" >>

\* a chat-edit call of the handler failed
EditFailed(task) == \E i \in DOMAIN task.edits : ~task.edits[i].ok

\* C11: when a chat-edit call fails during the resync that assign_role, release_role or
\* release_roles_by_user triggers, the handler does not raise: it returns its success
\* value (true, or the number of roles cleared) and the occupancy it committed stands.
C11_EditFailureNotPropagated ==
    /\ (Done("assign_role") /\ EditFailed(T)) =>
           /\ ~T.raised
           /\ T.result = Some(TRUE)
           /\ roles = [before.roles EXCEPT ![T.role_name].occupied_by = Some(T.user_id)]
    /\ (Done("release_role") /\ EditFailed(T)) =>
           /\ ~T.raised
           /\ T.result = Some(TRUE)
           /\ before.roles[T.role_name].occupied_by # None
           /\ roles = [before.roles EXCEPT ![T.role_name].occupied_by = None]
    /\ (Done("release_roles_by_user") /\ EditFailed(T)) =>
           /\ ~T.raised
           /\ T.result = Some(Cardinality(RolesOccupiedBy(before.roles, T.user_id)))
           /\ RolesOccupiedBy(before.roles, T.user_id) # {}
           /\ RolesOccupiedBy(roles, T.user_id) = {}

\* release_roles_by_user has returned the count although both its chat-edit calls failed
C11_Witness ==
    /\ Done("release_roles_by_user")
    /\ Len(T.edits) = 2
    /\ \A i \in DOMAIN T.edits : ~T.edits[i].ok
    /\ T.result = Some(1)

\* C12: whatever save_role_message calls were made and however they interleaved, there
\* is at most one board record for each category tag.
C12_OneBoardPerTag ==
    \A game_type \in GameTypes : Len(BoardRows(role_messages, game_type)) <= 1

\* the names of a seeding list
ListedNames(list) == { list[i][1] : i \in DOMAIN list }

\* C13: init_roles, for any list (a name may be repeated in it) and any prior state,
\* returns without raising; afterwards every listed name is a role, a name that was
\* not a role before has the region of its first entry in the list and no occupant,
\* every role that existed before keeps its region and its occupant, no other role
\* appears, and with every listed name already a role nothing changes.
C13_InitRolesRerun ==
    Done("init_roles") =>
        /\ ~T.raised
        /\ DOMAIN roles = DOMAIN before.roles \cup ListedNames(T.list)
        /\ \A r \in DOMAIN before.roles : roles[r] = before.roles[r]
        /\ \A r \in DOMAIN roles \ DOMAIN before.roles :
              LET first == CHOOSE i \in DOMAIN T.list :
                               /\ T.list[i][1] = r
                               /\ \A j \in 1 .. (i - 1) : T.list[j][1] # r
              IN  roles[r] = [region |-> T.list[first][2], occupied_by |-> None]
        /\ ListedNames(T.list) \subseteq DOMAIN before.roles => roles = before.roles

\* init_roles has returned for a list that repeats a new name with two regions, while
\* another role is occupied
C13_Witness ==
    /\ Done("init_roles")
    /\ T.list = << <<"Albedo", "LIYUE">>, <<"Albedo", "MONDSTADT">> >>
    /\ "Albedo" \notin DOMAIN before.roles
    /\ "Kafka" \in DOMAIN roles
    /\ roles["Kafka"].occupied_by # None

\* C14: unban_user(u) changes the store only when u exists with status BANNED, which
\* becomes ACTIVE; an ACTIVE or ADMIN user keeps its status, and nothing else changes.
C14_UnbanOnlyBanned ==
    Done("unban_user") =>
        /\ ~T.raised
        /\ user_messages = before.user_messages
        /\ users = IF /\ T.user_id \in DOMAIN before.users
                      /\ before.users[T.user_id].status = "BANNED"
                   THEN [before.users EXCEPT ![T.user_id].status = "ACTIVE"]
                   ELSE before.users

\* unban_user has returned for an ADMIN, who is still ADMIN
C14_Witness ==
    /\ Done("unban_user")
    /\ T.user_id \in DOMAIN before.users
    /\ before.users[T.user_id].status = "ADMIN"
    /\ users[T.user_id].status = "ADMIN"

\* C15: for an existing user, whatever its status, set_admin(u, true) yields ADMIN,
\* set_admin(u, false) yields ACTIVE, ban_user(u) yields BANNED, and unban_user(u) of a
\* BANNED user yields ACTIVE; the user's other columns and the other users are unchanged.
C15_StatusTransitions ==
    LET u == T.user_id
        Becomes(status) == users = [before.users EXCEPT ![u].status = status]
    IN  u \in DOMAIN before.users =>
            /\ (Done("set_admin") /\ T.flag) => Becomes("ADMIN")
            /\ (Done("set_admin") /\ ~T.flag) => Becomes("ACTIVE")
            /\ Done("ban_user") => Becomes("BANNED")
            /\ (Done("unban_user") /\ before.users[u].status = "BANNED") => Becomes("ACTIVE")

\* set_admin(u, false) has returned for an ADMIN, who is now ACTIVE
C15_Witness ==
    /\ Done("set_admin")
    /\ ~T.flag
    /\ T.user_id \in DOMAIN before.users
    /\ before.users[T.user_id].status = "ADMIN"
    /\ users[T.user_id].status = "ACTIVE"

\* C17: the created_at that add_message stores, read as UTC, is: for a datetime
\* without tzinfo its wall-clock reading; for a datetime with tzinfo the instant it
\* denotes; and with no datetime supplied the current UTC instant.
C17_TimestampRoundTrip ==
    (Done("add_message") /\ ~T.raised) =>
        LET stored == user_messages[Len(user_messages)].created_at
        IN  /\ T.at = None => stored = Val(T.now)
            /\ (T.at # None /\ Val(T.at).tzinfo = None) => stored = Val(T.at).wall
            /\ (T.at # None /\ Val(T.at).tzinfo # None) => stored = Instant(Val(T.at))

\* the instants of the year that are midnights, midnights of a Monday (the epoch is a
\* Thursday) and midnights of the first day of a month
Midnights == { d * TicksPerDay : d \in 0 .. 364 }
MondayMidnights == { d * TicksPerDay : d \in { x \in 0 .. 364 : x % 7 = 4 } }
FirstDayMidnights ==
    { d * TicksPerDay : d \in {0, 31, 59, 90, 120, 151, 181, 212, 243, 273, 304, 334} }

\* the latest instant of a set that is not after now
LatestUpTo(instants, now) ==
    CHOOSE b \in instants : b <= now /\ \A c \in instants : c <= now => c <= b

\* the number of messages of a user that are dated at or after an instant
MessagesSince(user_id, since) ==
    Cardinality({ i \in DOMAIN user_messages :
                    /\ user_messages[i].user_id = user_id
                    /\ user_messages[i].created_at >= since })

\* C16: get_message_stats(u) returns, for one now, the numbers of messages of u dated
\* at or after the midnight of the current day, the midnight of the Monday of the
\* current week, the midnight of the first day of the current month, and the epoch;
\* a user without messages gets four zeros.
C16_StatsCounts ==
    Done("get_message_stats") =>
        LET now == Val(T.at)
            u == T.user_id
        IN  /\ Val(T.result) = << MessagesSince(u, LatestUpTo(Midnights, now)),
                                  MessagesSince(u, LatestUpTo(MondayMidnights, now)),
                                  MessagesSince(u, LatestUpTo(FirstDayMidnights, now)),
                                  MessagesSince(u, 0) >>
            /\ \A i \in 1 .. 4 : Val(T.result)[i] >= 0
            /\ MessagesOf(user_messages, u) = << >> => Val(T.result) = << 0, 0, 0, 0 >>

\* get_message_stats has counted the one message of the user, dated exactly at the
\* midnight of the current day, and not the message of the other user
C16_Witness ==
    /\ Done("get_message_stats")
    /\ Len(user_messages) = 2
    /\ Len(MessagesOf(user_messages, T.user_id)) = 1
    /\ MessagesOf(user_messages, T.user_id)[1].created_at = LatestUpTo(Midnights, Val(T.at))
    /\ Val(T.result)[1] = 1

\* what a stored line may become, given the occupancy of the roles
LineAsClaimed(line, new) ==
    LET blank == \A j \in DOMAIN line : line[j] \in Whitespace
        marked == \E j \in DOMAIN line : line[j] \in Markers
        name == Concat(strip(SelectSeq(line, LAMBDA c : c \notin {CheckMark, Clock})))
    IN  IF blank \/ marked \/ name \notin DOMAIN roles
        THEN new = line
        ELSE Concat(new) = IF roles[name].occupied_by # None
                           THEN name \o " " \o CheckMark
                           ELSE name

\* C18: the text of every chat-edit call of a handler that has returned is the stored
\* text of that board line by line, in the same number and order: a blank line, a line
\* with a marker and a line whose name (the line without check marks, clocks and
\* surrounding whitespace) is not a role are as stored; a line naming a role is the
\* name followed by a space and a check mark if the role is occupied, else the name.
C18_BoardTextLineByLine ==
    T.pc = "done" =>
        \A i \in DOMAIN T.edits :
            LET stored == split(BoardRows(role_messages, T.edits[i].game_type)[1].message_text)
                pushed == split(T.edits[i].text)
            IN  /\ Len(pushed) = Len(stored)
                /\ \A k \in DOMAIN stored : LineAsClaimed(stored[k], pushed[k])

\* assign_role has pushed a board with a heading, a blank line, the line of the role it
\* assigned and the line of a free role
C18_Witness ==
    /\ Done("assign_role")
    /\ Len(T.edits) = 1
    /\ BoardRows(role_messages, "genshin") # << >>
    /\ BoardRows(role_messages, "genshin")[1].message_text =
           << "LIST", Newline, Newline, " ", "Albedo", " ", CheckMark, Newline, "Kafka", Clock >>
    /\ T.edits[1].text =
           << "LIST", Newline, Newline, "Albedo", " ", CheckMark, Newline, "Kafka" >>

\* C19: an assign_role or release_role that returns true with a chat-edit capability
\* makes exactly one board resync, of the "hsr" board if the role's region is one of
\* the HSR regions and of the "genshin" board otherwise, and no chat-edit call for the
\* other board; without the capability, or returning false, it makes none.  The board
\* chosen from the name of a region is "hsr" exactly for the HSR regions.
C19_OneResyncOfTheRoleBoard ==
    /\ \A region \in RoleRegion : GameTypeOf(region) = "hsr" <=> region \in HSRRegions
    /\ \A op \in {"assign_role", "release_role"} :
          Done(op) =>
              IF T.result = Some(TRUE) /\ T.flag
              THEN LET board == IF before.roles[T.role_name].region \in HSRRegions
                                THEN "hsr" ELSE "genshin"
                   IN  /\ T.calls = << board >>
                       /\ \A i \in DOMAIN T.edits : T.edits[i].game_type = board
              ELSE T.calls = << >> /\ T.edits = << >>

\* release_role of an HSR role has resynchronized the "hsr" board alone, both boards
\* being stored
C19_Witness ==
    /\ Done("release_role")
    /\ T.result = Some(TRUE)
    /\ T.flag
    /\ before.roles[T.role_name].region = "HSR_STAR"
    /\ StoredBoards = << "genshin", "hsr" >>
    /\ T.calls = << "hsr" >>
    /\ EditedBoards(T) = << "hsr" >>

\* C20: update_role_message(tag, bot) with no board record stored for tag returns false
\* without a chat-edit call; with a record it makes exactly one chat-edit call, to the
\* stored channel id and message id, and returns whether that call succeeded.
C20_UpdateRoleMessage ==
    Done("update_role_message") =>
        LET records == BoardRows(role_messages, T.game_type)
        IN  /\ ~T.raised
            /\ IF records = << >>
               THEN T.edits = << >> /\ T.result = Some(FALSE)
               ELSE /\ Len(T.edits) = 1
                    /\ T.edits[1].chat_id = records[1].channel_id
                    /\ T.edits[1].message_id = records[1].message_id
                    /\ T.result = Some(T.edits[1].ok)

\* update_role_message("hsr", bot) has returned false after its chat-edit call to the
\* place of the "hsr" board failed, the "genshin" board being stored elsewhere
C20_Witness ==
    /\ Done("update_role_message")
    /\ T.game_type = "hsr"
    /\ StoredBoards = << "genshin", "hsr" >>
    /\ BoardRows(role_messages, "genshin")[1].channel_id = 100
    /\ BoardRows(role_messages, "hsr")[1].channel_id = 200
    /\ Len(T.edits) = 1
    /\ T.edits[1].chat_id = 200
    /\ ~T.edits[1].ok
    /\ T.result = Some(FALSE)

\* the names of the Role objects of a returned list, in list order
NamesOf(list) == [i \in DOMAIN list |-> list[i].name]

\* a list of role names in strictly ascending order: "Albedo" before "Kafka"
NamesAscend(names) ==
    \A i, j \in DOMAIN names :
        i < j => names[i] = "Albedo" /\ names[j] = "Kafka"

\* the roles of a table that a region argument lets through
InRegion(table, region) ==
    { r \in DOMAIN table : region = None \/ table[r].region = Val(region) }

\* C21: get_available_roles() returns exactly the roles whose occupant is null and
\* get_occupied_roles() exactly those whose occupant is non-null, so that the two
\* results are disjoint and together hold every role; with a region argument both are
\* restricted to the roles of that region; both lists are in ascending order of name,
\* and each Role object shows the row it stands for.
C21_FreeAndOccupiedRoles ==
    (Done("get_available_roles") \/ Done("get_occupied_roles")) =>
        LET list == Val(T.result)
            names == { list[i].name : i \in DOMAIN list }
            free == { r \in InRegion(before.roles, T.region) :
                        before.roles[r].occupied_by = None }
            occupied == InRegion(before.roles, T.region) \ free
        IN  /\ names = IF T.op = "get_available_roles" THEN free ELSE occupied
            /\ Cardinality(names) = Len(list)
            /\ NamesAscend(NamesOf(list))
            /\ \A i \in DOMAIN list :
                   /\ list[i].region = before.roles[list[i].name].region
                   /\ list[i].occupied_by = before.roles[list[i].name].occupied_by
            /\ Tables = before

\* a query of the free roles of MONDSTADT has returned both of them, in name order
C21_Witness ==
    /\ Done("get_available_roles")
    /\ T.region = Some("MONDSTADT")
    /\ NamesOf(Val(T.result)) = << "Albedo", "Kafka" >>

\* C22: get_region_stats() has an entry for every region that at least one role has,
\* and for no other region; the entry holds the number of roles of the region (total),
\* of its occupied roles and of its free roles, and total = occupied + free.
C22_RegionStats ==
    Done("get_region_stats") =>
        LET stats == Val(T.result)
            RolesOf(g) == { r \in DOMAIN before.roles : before.roles[r].region = g }
        IN  /\ DOMAIN stats = { g \in RoleRegion : RolesOf(g) # {} }
            /\ \A g \in DOMAIN stats :
                   /\ stats[g].total = Cardinality(RolesOf(g))
                   /\ stats[g].occupied = Cardinality({ r \in RolesOf(g) :
                                              before.roles[r].occupied_by # None })
                   /\ stats[g].free = Cardinality({ r \in RolesOf(g) :
                                          before.roles[r].occupied_by = None })
                   /\ stats[g].total = stats[g].occupied + stats[g].free
            /\ Tables = before

\* the statistics of a region with one occupied and one free role, no other region
\* having a role
C22_Witness ==
    /\ Done("get_region_stats")
    /\ DOMAIN Val(T.result) = {"MONDSTADT"}
    /\ Val(T.result)["MONDSTADT"] = [total |-> 2, occupied |-> 1, free |-> 1]

\* C23: get_roles_by_user(u) returns exactly the names of the roles whose occupant is
\* u, each once; a user may occupy several roles: assign_role of a free role to a user
\* that is not BANNED returns true also when the user holds a role already, and the
\* user then holds both; a role has at most one occupant.
C23_RolesByUser ==
    /\ Done("get_roles_by_user") =>
          LET names == Val(T.result)
          IN  /\ { names[i] : i \in DOMAIN names }
                   = { r \in DOMAIN before.roles :
                         before.roles[r].occupied_by = Some(T.user_id) }
              /\ \A i, j \in DOMAIN names : names[i] = names[j] => i = j
              /\ Tables = before
    /\ (/\ Done("assign_role")
        /\ T.role_name \in DOMAIN before.roles
        /\ before.roles[T.role_name].occupied_by = None
        /\ T.user_id \in DOMAIN before.users
        /\ before.users[T.user_id].status # "BANNED")
       => /\ T.result = Some(TRUE)
          /\ \A r \in DOMAIN roles :
                 roles[r].occupied_by = Some(T.user_id)
                     <=> (r = T.role_name \/ before.roles[r].occupied_by = Some(T.user_id))
    /\ \A r \in DOMAIN roles :
           roles[r].occupied_by \in {None} \cup { Some(u) : u \in UserIds }

\* get_roles_by_user has returned the two roles of a user that was given a second role
C23_Witness ==
    /\ Done("get_roles_by_user")
    /\ Len(Val(T.result)) = 2

\* C24: get_user_ids(only_active, include_admins, order_asc) returns the ids of the
\* users that are not BANNED when only_active and not ADMIN when include_admins is
\* false, each once, in ascending order of id when order_asc and in descending order
\* otherwise; with no argument supplied it returns all users that are not BANNED,
\* admins among them, in ascending order.
C24_UserIds ==
    Done("get_user_ids") =>
        LET ids == Val(T.result)
            kept == { u \in DOMAIN before.users :
                        /\ T.only_active => before.users[u].status # "BANNED"
                        /\ ~T.include_admins => before.users[u].status # "ADMIN" }
        IN  /\ { ids[i] : i \in DOMAIN ids } = kept
            /\ \A i, j \in DOMAIN ids :
                   i < j => IF T.order_asc THEN ids[i] < ids[j] ELSE ids[i] > ids[j]
            /\ T.supplied = {} =>
                   /\ { ids[i] : i \in DOMAIN ids }
                        = { u \in DOMAIN before.users : before.users[u].status # "BANNED" }
                   /\ \A i, j \in DOMAIN ids : i < j => ids[i] < ids[j]
            /\ Tables = before

\* get_user_ids without admins, in descending order, has left out an admin and
\* returned the other user
C24_Witness ==
    /\ Done("get_user_ids")
    /\ ~T.include_admins /\ ~T.order_asc
    /\ \E u \in DOMAIN users : users[u].status = "ADMIN"
    /\ Len(Val(T.result)) = 1

\* get_user_ids with no argument supplied has returned an admin after a plain user
C24_WitnessDefaults ==
    /\ Done("get_user_ids")
    /\ T.supplied = {}
    /\ Val(T.result) = << 1, 2 >>
    /\ users[2].status = "ADMIN"

\* C25: set_admin, ban_user and unban_user called with an id that no user has return
\* without an error, create no user and change no table.
C25_StatusOfUnknownUser ==
    (/\ T.op \in {"set_admin", "ban_user", "unban_user"}
     /\ T.pc # "idle"
     /\ T.user_id \notin DOMAIN before.users)
    => /\ T.pc = "done"
       /\ ~T.raised
       /\ T.result = Some(None)
       /\ T.user_id \notin DOMAIN users
       /\ Tables = before

\* set_admin has returned for an id that no user has, while another user exists
C25_Witness ==
    /\ Done("set_admin")
    /\ T.flag
    /\ T.user_id \notin DOMAIN users
    /\ users # << >>

\* C26: constructing the manager with a supplied connection string that is empty or
\* holds only whitespace raises, and no engine is created; constructing it with no
\* connection string succeeds, on the default local file store; any other string is
\* the store of the engine.
C26_Construction ==
    (T.op = "BotDatabase" /\ T.pc # "idle") =>
        LET blank == /\ T.db_url # None
                     /\ \A i \in DOMAIN Val(T.db_url) : Val(T.db_url)[i] \in {" ", "\t", "\n"}
        IN  /\ blank => T.raised /\ engine = None
            /\ T.db_url = None => ~T.raised /\ engine = Some(<< "sqlite+aiosqlite:///./bot.db" >>)
            /\ (~blank /\ T.db_url # None) => ~T.raised /\ engine = T.db_url
            /\ Tables = before

\* a construction with a string of whitespace has raised and there is no engine
C26_Witness ==
    /\ Done("BotDatabase")
    /\ T.db_url = Some(<< " ", "\t" >>)
    /\ T.raised
    /\ engine = None

\* a construction with no connection string has made the engine of the default store
C26_WitnessDefault ==
    /\ Done("BotDatabase")
    /\ T.db_url = None
    /\ engine = Some(DEFAULT_DB_URL)
    /\ ~T.raised

ChangedRoles == IF T.op = "release_roles_by_user"
                THEN RolesOccupiedBy(before.roles, T.user_id)
                ELSE {T.role_name}
NewOccupant == IF T.op = "assign_role" THEN Some(T.user_id) ELSE None

\* C28: in assign_role, release_role and release_roles_by_user a resync is started, the
\* occupancy is read for it and the chat-edit call is made only when the change of
\* occupancy is committed; the snapshot read for the pushed text holds the change, and
\* so does the text of every chat-edit call.
C28_PushAfterCommit ==
    (/\ T.op \in {"assign_role", "release_role", "release_roles_by_user"}
     /\ \/ T.pc \in {"update_role_message", "get_role_status", "edit_message_text"}
        \/ T.calls # << >>
        \/ T.edits # << >>)
    => /\ ChangedRoles # {}
       /\ \A r \in ChangedRoles :
              /\ before.roles[r].occupied_by # NewOccupant
              /\ roles[r].occupied_by = NewOccupant
       /\ T.pc = "edit_message_text" =>
              \A r \in ChangedRoles : T.snapshot[r] = NewOccupant
       /\ \A i \in DOMAIN T.edits :
              \A r \in ChangedRoles :
                  \E k \in DOMAIN split(T.edits[i].text) :
                      split(T.edits[i].text)[k]
                          = IF NewOccupant = None THEN << r >> ELSE << r, " ", CheckMark >>

\* assign_role has pushed a text that marks the role it has just committed
C28_Witness ==
    /\ Done("assign_role")
    /\ Len(T.edits) = 1
    /\ T.edits[1].ok
    /\ roles[T.role_name].occupied_by = Some(T.user_id)
    /\ \E k \in DOMAIN split(T.edits[1].text) :
           split(T.edits[1].text)[k] = << T.role_name, " ", CheckMark >>

\* C29: when the assign_role and release_role handlers that ran together with a
\* chat-edit capability are all over and all their chat-edit calls have succeeded, the
\* text last pushed to the board shows every listed role with the checkmark if it is
\* occupied in the committed table and without it if it is free.
C29_BoardEventuallyConsistent ==
    (\A t \in Tasks : tasks[t].pc \in {"idle", "done"}) =>
        \A place \in DOMAIN chat :
            \A r \in DOMAIN roles :
                LET lines == split(chat[place])
                    shown == { lines[k] : k \in DOMAIN lines }
                IN  IF roles[r].occupied_by # None
                    THEN << r, " ", CheckMark >> \in shown /\ << r >> \notin shown
                    ELSE << r >> \in shown /\ << r, " ", CheckMark >> \notin shown

\* C30: a user that is BANNED when a handler is called is BANNED when the handler has
\* returned, unless the handler is unban_user called for that user: add_user,
\* add_message, set_admin with either flag, ban_user, assign_role, release_role and
\* release_roles_by_user move no user out of BANNED.
C30_BannedUntilUnban ==
    T.pc = "done" =>
        \A u \in DOMAIN before.users :
            (before.users[u].status = "BANNED" /\ ~(T.op = "unban_user" /\ T.user_id = u))
            => users[u].status = "BANNED"

\* C31: add_user and add_message calls that are in flight together for an id no user
\* has all return without an exception; the user exists afterwards, and an add_message
\* that has returned has stored its message.
C31_FirstActivityInterleaved ==
    \A t \in Tasks :
        (tasks[t].op \in {"add_user", "add_message"} /\ tasks[t].pc = "done")
        => /\ ~tasks[t].raised
           /\ tasks[t].user_id \in DOMAIN users
           /\ tasks[t].op = "add_message" =>
                  \E k \in DOMAIN user_messages : user_messages[k].user_id = tasks[t].user_id

\* the stored text of the board a chat-edit call was made for
StoredText(edit) == BoardRows(role_messages, edit.game_type)[1].message_text

\* C32: no step of update_role_message changes the record of a board, a role, a user
\* or a message; the text it pushes depends on the stored text and the occupancy
\* alone: the resyncs of one handler, between which the occupancy does not change,
\* push the same text for boards that store the same text.
C32_ResyncWritesNothing ==
    /\ [][tasks[1].pc \in {"update_role_message", "get_role_status", "edit_message_text"}
          => UNCHANGED << users, user_messages, roles, role_messages >>]_vars
    /\ [](\A i, j \in DOMAIN T.edits :
              StoredText(T.edits[i]) = StoredText(T.edits[j])
                  => T.edits[i].text = T.edits[j].text)

\* release_roles_by_user has resynchronized both boards, which store the same text, and
\* both chat-edit calls carried the same text
C32_Witness ==
    /\ Done("release_roles_by_user")
    /\ Len(T.edits) = 2
    /\ T.edits[1].game_type # T.edits[2].game_type
    /\ T.edits[1].text = T.edits[2].text
    /\ Tables.role_messages = before.role_messages

C38_RoleFrame ==
    [][/\ \A r \in DOMAIN roles :
             /\ r \in DOMAIN roles'
             /\ roles'[r].region = roles[r].region
       /\ \A r \in DOMAIN roles' :
             /\ roles'[r].occupied_by \in {None} \cup { Some(u) : u \in UserIds }
             /\ r \notin DOMAIN roles =>
                    tasks[1].op = "init_roles" /\ roles'[r].occupied_by = None]_vars

\* init_roles has been called with another region for a role that exists and is
\* occupied, and has returned: the role has its region and its occupant
C38_Witness ==
    /\ Done("init_roles")
    /\ \E i \in DOMAIN T.list :
           /\ T.list[i][1] \in DOMAIN roles
           /\ T.list[i][2] # roles[T.list[i][1]].region
           /\ roles[T.list[i][1]].occupied_by # None

\* the number of events of a user that went to the handler and arrived in (t - p, t]
RECURSIVE ForwardedIn(_, _, _, _)
ForwardedIn(log, user_id, t, p) ==
    IF p = 0 \/ t < 0 THEN 0
    ELSE (IF t \in DOMAIN log[user_id] THEN log[user_id][t] ELSE 0)
         + ForwardedIn(log, user_id, t - 1, p - 1)

\* C34: for every user and every instant t, at most rate_limit of the user's Message
\* and CallbackQuery events that arrived in (t - time_period, t] have gone to the
\* handler; an event that arrives when that window holds rate_limit accepted events of
\* its user is answered with the warning, goes to no handler and is not recorded, and
\* any other such event goes to the handler and is recorded; an event changes nothing
\* that is kept for another user.
C34_RateLimit ==
    /\ [](\A u \in Senders, t \in 0 .. MaxClock :
              ForwardedIn(traffic.forwarded, u, t, limiter.time_period)
                  <= limiter.rate_limit)
    /\ [][LET met == Val(traffic'.outcome)
              event == met.event
              held == ForwardedIn(traffic.forwarded, event.user_id, event.at,
                                  limiter.time_period)
              Recorded(calls) == Len(SelectSeq(calls, LAMBDA c : c = event.at))
          IN  /\ \A v \in Senders \ {event.user_id} :
                     /\ limiter'.user_calls[v] = limiter.user_calls[v]
                     /\ traffic'.forwarded[v] = traffic.forwarded[v]
              /\ event.kind # "Other" =>
                     IF held >= limiter.rate_limit
                     THEN /\ met.result = "warning"
                          /\ traffic'.forwarded = traffic.forwarded
                          /\ Recorded(limiter'.user_calls[event.user_id])
                               = Recorded(limiter.user_calls[event.user_id])
                     ELSE /\ met.result = "handler"
                          /\ traffic'.forwarded[event.user_id][event.at]
                               = traffic.forwarded[event.user_id][event.at] + 1
                          /\ Recorded(limiter'.user_calls[event.user_id])
                               = Recorded(limiter.user_calls[event.user_id]) + 1]_vars

\* a message has been answered with the warning after two messages of its sender went
\* to the handler, while a message of the other sender went to the handler
C34_Witness ==
    /\ limiter.rate_limit = 2
    /\ traffic.outcome # None
    /\ Val(traffic.outcome).result = "warning"
    /\ Val(traffic.outcome).event.user_id = 1
    /\ ForwardedIn(traffic.forwarded, 1, traffic.now, limiter.time_period) = 2
    /\ ForwardedIn(traffic.forwarded, 2, traffic.now, limiter.time_period) = 1


\* the message of a user, not a bot, in a group or a supergroup
GroupMessage(event) ==
    /\ event.kind = "Message"
    /\ event.chat_type \in {"group", "supergroup"}
    /\ ~event.is_bot

\* C37: MessageCounterMiddleware calls the downstream handler exactly once for every
\* event, also when the recording has failed; it stores one message, the sender being
\* registered before, for a message of a user in a group or a supergroup whose
\* recording has not failed, and nothing for any other event; every row written below
\* the middleware is the sender or the message of such an event.
C37_CounterMiddleware ==
    /\ [](\A t \in Updates :
            LET passing == pipeline[t]
            IN  /\ passing.handled = IF passing.pc = "returned" THEN 1 ELSE 0
                /\ passing.pc = "returned" =>
                       LET event == Val(passing.event)
                       IN  /\ passing.recorded =
                                  IF GroupMessage(event) /\ ~passing.failed THEN 1 ELSE 0
                           /\ passing.failed => GroupMessage(event)
                           /\ GroupMessage(event) => event.user_id \in DOMAIN users)
    /\ [][ /\ UNCHANGED << roles, role_messages >>
           /\ (users' # users \/ user_messages' # user_messages) =>
                 \E t \in Updates :
                     /\ pipeline[t].event # None
                     /\ LET event == Val(pipeline[t].event)
                            sender == event.user_id
                        IN  /\ GroupMessage(event)
                            /\ \/ /\ sender \notin DOMAIN users
                                  /\ users' = Put(users, sender, User(event.profile, "ACTIVE"))
                                  /\ user_messages' = user_messages
                               \/ /\ sender \in DOMAIN users
                                  /\ users' = users
                                  /\ user_messages' =
                                         Append(user_messages,
                                                [user_id |-> sender,
                                                 created_at |-> message_date.wall]) ]_vars

\* two messages of an unknown sender in a group have passed together: the recording of
\* one has failed, the message of the other is stored, and both reached the handler
C37_Witness ==
    \E t, other \in Updates :
        /\ pipeline[t].pc = "returned" /\ pipeline[t].failed
        /\ pipeline[t].handled = 1 /\ pipeline[t].recorded = 0
        /\ pipeline[other].pc = "returned" /\ ~pipeline[other].failed
        /\ pipeline[other].handled = 1 /\ pipeline[other].recorded = 1
        /\ Len(user_messages) = 1


\* the last handler of the form, when it was the one named
Last(handler) == answer # None /\ Val(answer).handler = handler

\* C35: a decision taken in a topic that submit_new_cmd created is sent to the user
\* whose submission created the topic, and is never answered 'user not found'.
C35_TopicResolvable ==
    Last("process_decision_callback") =>
        /\ Val(answer).result \in {"accept", "reject"}
        /\ Val(answer).to = dialog.topics[Val(answer).thread_id].user_id

\* the state a form is in, in the order of its steps
FormStep(state) ==
    IF state = None THEN 0
    ELSE IF state = Some("role") THEN 1
    ELSE IF state = Some("sorol") THEN 2
    ELSE 3

\* C36: an input that is not validated leaves the state and the data of the form as
\* they were; a form moves from role to sorol and from sorol to code_phrase only, or
\* starts again with /new; and whenever submit_new_cmd runs, the data of the state hold
\* role, sortol and code_phrase.
C36_FormSequential ==
    /\ [][ (answer' # None /\ Val(answer').result = "error") => UNCHANGED fsm ]_vars
    /\ [][ \A u \in Senders :
              \/ fsm'[u].state = fsm[u].state
              \/ Last("new_cmd")' /\ fsm'[u] = [state |-> Some("role"), data |-> << >>]
              \/ Last("submit_new_cmd")' /\ fsm'[u] = NoForm
              \/ /\ FormStep(fsm[u].state) \in {1, 2}
                 /\ FormStep(fsm'[u].state) = FormStep(fsm[u].state) + 1 ]_vars
    /\ [](Last("submit_new_cmd") => FormKeys \subseteq Val(answer).keys)

====
